---- MODULE Spec2Model ----
(***************************************************************************)
(* Model of the Mantic search pipeline: file enumeration, intent analysis, *)
(* structural scorer, smart filter, session manager, scan timeout, the     *)
(* persisted semantic index, the result record with its warnings, the     *)
(* impact analyzer, the session commands of concurrent processes, the      *)
(* index file under concurrent saves, the in-process memory cache and the  *)
(* context carryover of a cached scan.                                     *)
(*                                                                         *)
(* Strings of the program are sequences of one-character strings, so that  *)
(* includes / startsWith / basename / extname / localeCompare are computed *)
(* and not assumed.  Scores are fixed-point integers: one unit of the      *)
(* program's score is ScoreScale units here (the program multiplies by     *)
(* 1.5, 0.3 and by extension weights with two decimals).                   *)
(***************************************************************************)
EXTENDS Integers, Sequences, FiniteSets, TLC

VARIABLES
    \* --- structural scorer / smart filter (pure functions applied to inputs)
    files,        \* input file list handed to the scorer
    keywords,     \* extracted keywords of the query
    category,     \* intent category of the query
    boosts,       \* session boosts handed to the scorer's constructor
    index,        \* semantic index handed to the smart filter (path -> entry)
    excerpts,     \* paths in which exact line detection finds the keyword
    recentFiles,  \* paths git or the index reports as recently modified
    contextFiles, \* top files carried over from the previous request
    ranked,       \* result of rankFiles: [called, out]
    smart         \* result of SmartFilter.search: [called, out]

scoreVars == <<files, keywords, category, boosts, index, excerpts,
               recentFiles, contextFiles, ranked, smart>>

VARIABLES
    \* --- processRequest invocations and the session they record into
    request,      \* the query and options of the invocations: [query, filter]
    sessionDoc,   \* the session document persisted under .mantic/sessions
    inv           \* invocation -> [pc, useSession, result, active, recorded, after]

pipeVars == <<request, sessionDoc, inv>>

VARIABLES
    \* --- scanProject raced against its timeout
    env,          \* the MANTIC_TIMEOUT environment variable: [set, isNaN, parsed]
    scan          \* [clock, stage, timerFired, returned, result, internalEnd]

scanVars == <<env, scan>>

VARIABLES
    \* --- the cache steps of a scan
    worktree,     \* path -> [listed, stamp]: the loader's list and what stat reports
    disk,         \* the index file .mantic/index.json
    memory,       \* the process-wide MemoryCache, in insertion order
    run           \* [pc, cache, aliased, changes, updated]

cacheVars == <<worktree, disk, memory, run>>

VARIABLES
    \* --- NativeLoader.loadFiles
    loaderEnv,    \* the worktree and the outcome of each enumeration strategy
    loaded        \* result of loadFiles: [called, strategy, out]

loadVars == <<loaderEnv, loaded>>

VARIABLES
    \* --- one run of the command, from the prompt to the result record
    cli,          \* [prompt, filter, maxFiles, repo]: arguments and environment
    response      \* [called, result]

reqVars == <<cli, response>>

VARIABLES
    \* --- impact analysis of one file
    impactCase,   \* [primary, direct, indirect, cyclic, tests]: the import graph
    impact        \* [called, block]: the impact block attached to the file

impactVars == <<impactCase, impact>>

VARIABLES
    \* --- SessionManager.getBoostCandidates
    activeSession, \* the manager's active session: [isNull, viewedFiles]
    candidates     \* [called, out]

boostVars == <<activeSession, candidates>>

VARIABLES
    \* --- session commands of concurrent processes over one session document
    sessionFile,  \* .mantic/sessions/<id>.json: [content, doc]
    cmd           \* process -> [kind, arg, pc, active, next, out, existed]

sessVars == <<sessionFile, cmd>>

VARIABLES
    \* --- CacheManager.save of concurrent processes in one project root
    inodes,       \* the files' contents, one sequence of chunks per inode
    dirents,      \* [tmp, index]: the inodes index.json.tmp and index.json name
    saver         \* process -> [pc, fd, offset, error]

saveVars == <<inodes, dirents, saver>>

VARIABLES
    \* --- a process's MemoryCache under loads and saves of several roots
    usage         \* [order, written, op]: recency of use, order of writes, last operation

memVars == <<usage>>

VARIABLES
    \* --- the context carryover of a cached scan
    lastRequest,  \* session.json: [exists, keywords, topFiles]
    carried       \* [called, contextFiles, confidence, scoredFiles, files]

carryVars == <<lastRequest, carried>>

vars == <<scoreVars, pipeVars, scanVars, cacheVars, loadVars, reqVars, impactVars,
          boostVars, sessVars, saveVars, memVars, carryVars>>

(***************************************************************************)
(* Characters and strings                                                  *)
(***************************************************************************)

\* The characters that occur in the modelled paths, in ascending byte order.
ByteOrder ==
    <<"-", ".", "/", "2",
      "A", "B", "C", "D", "E", "F", "G", "H", "I", "J", "K", "L", "M",
      "N", "O", "P", "Q", "R", "S", "T", "U", "V", "W", "X", "Y", "Z",
      "_",
      "a", "b", "c", "d", "e", "f", "g", "h", "i", "j", "k", "l", "m",
      "n", "o", "p", "q", "r", "s", "t", "u", "v", "w", "x", "y", "z">>

UpperChars ==
    <<"A", "B", "C", "D", "E", "F", "G", "H", "I", "J", "K", "L", "M",
      "N", "O", "P", "Q", "R", "S", "T", "U", "V", "W", "X", "Y", "Z">>

LowerChars ==
    <<"a", "b", "c", "d", "e", "f", "g", "h", "i", "j", "k", "l", "m",
      "n", "o", "p", "q", "r", "s", "t", "u", "v", "w", "x", "y", "z">>

IndexIn(seq, c) == CHOOSE i \in 1..Len(seq) : seq[i] = c

IsUpper(c) == \E i \in 1..Len(UpperChars) : UpperChars[i] = c

IsLetter(c) == IsUpper(c) \/ \E i \in 1..Len(LowerChars) : LowerChars[i] = c

\* Position of a character in byte order (stands for its code unit).
ByteCode(c) == IndexIn(ByteOrder, c)

LowerChar(c) == IF IsUpper(c) THEN LowerChars[IndexIn(UpperChars, c)] ELSE c

\* String.prototype.toLowerCase
ToLower(s) == [i \in 1..Len(s) |-> LowerChar(s[i])]

\* s.substring(i-1, j) with 1-based inclusive bounds
Slice(s, i, j) == IF i > j THEN <<>> ELSE SubSeq(s, i, j)

MatchAt(s, pat, i) ==
    /\ i + Len(pat) - 1 <= Len(s)
    /\ \A k \in 1..Len(pat) : s[i + k - 1] = pat[k]

\* String.prototype.includes
Includes(s, pat) == \E i \in 1..(Len(s) - Len(pat) + 1) : MatchAt(s, pat, i)

\* String.prototype.startsWith
StartsWith(s, pat) == Len(pat) <= Len(s) /\ MatchAt(s, pat, 1)

\* String.prototype.endsWith
EndsWith(s, pat) == Len(pat) <= Len(s) /\ MatchAt(s, pat, Len(s) - Len(pat) + 1)

\* Index of the last occurrence of character c in s, 0 when absent.
LastIndexOf(s, c) ==
    IF \E i \in 1..Len(s) : s[i] = c
    THEN CHOOSE i \in 1..Len(s) : s[i] = c /\ \A j \in (i+1)..Len(s) : s[j] # c
    ELSE 0

\* path.basename(p)
Basename(p) == Slice(p, LastIndexOf(p, "/") + 1, Len(p))

\* path.extname(p): from the last dot of the basename; empty when there is
\* no dot or the only dot starts the basename.
ExtFrom(b, d) == IF d <= 1 THEN <<>> ELSE Slice(b, d, Len(b))

ExtOfBase(b) == ExtFrom(b, LastIndexOf(b, "."))

Extname(p) == ExtOfBase(Basename(p))

\* s.replace(pat, ''): removes the first occurrence of pat.
RemoveFirst(s, pat) ==
    IF Len(pat) = 0 \/ ~Includes(s, pat) THEN s
    ELSE LET i == CHOOSE k \in 1..(Len(s) - Len(pat) + 1) :
                     MatchAt(s, pat, k) /\ \A j \in 1..(k-1) : ~MatchAt(s, pat, j)
         IN  Slice(s, 1, i - 1) \o Slice(s, i + Len(pat), Len(s))

\* p.split('/').length
SplitDepth(p) == Cardinality({i \in 1..Len(p) : p[i] = "/"}) + 1

\* Byte-wise lexicographic order (the order of < on strings).
RECURSIVE ByteLess(_, _)
ByteLess(a, b) ==
    IF Len(b) = 0 THEN FALSE
    ELSE IF Len(a) = 0 THEN TRUE
    ELSE IF ByteCode(a[1]) # ByteCode(b[1]) THEN ByteCode(a[1]) < ByteCode(b[1])
    ELSE ByteLess(Tail(a), Tail(b))

\* String.prototype.localeCompare under the root collation, for the modelled
\* characters: primary weights order punctuation before digits before
\* letters and ignore case; a tie on all primary weights is broken by the
\* first case difference, lower case first.  Result is -1, 0 or 1.
PrimaryOrder ==
    <<"_", "-", ".", "/", "2",
      "a", "b", "c", "d", "e", "f", "g", "h", "i", "j", "k", "l", "m",
      "n", "o", "p", "q", "r", "s", "t", "u", "v", "w", "x", "y", "z">>

PrimaryWeight(c) == IndexIn(PrimaryOrder, LowerChar(c))

RECURSIVE PrimaryCompare(_, _)
PrimaryCompare(a, b) ==
    IF Len(a) = 0 /\ Len(b) = 0 THEN 0
    ELSE IF Len(a) = 0 THEN -1
    ELSE IF Len(b) = 0 THEN 1
    ELSE IF PrimaryWeight(a[1]) < PrimaryWeight(b[1]) THEN -1
    ELSE IF PrimaryWeight(a[1]) > PrimaryWeight(b[1]) THEN 1
    ELSE PrimaryCompare(Tail(a), Tail(b))

RECURSIVE TertiaryCompare(_, _)
TertiaryCompare(a, b) ==
    IF Len(a) = 0 \/ Len(b) = 0 THEN 0
    ELSE IF a[1] = b[1] THEN TertiaryCompare(Tail(a), Tail(b))
    ELSE IF IsUpper(b[1]) THEN -1 ELSE 1

TieOnPrimary(primary, a, b) ==
    IF primary # 0 THEN primary ELSE TertiaryCompare(a, b)

LocaleCompare(a, b) == TieOnPrimary(PrimaryCompare(a, b), a, b)

(***************************************************************************)
(* File classifier                                                         *)
(***************************************************************************)

\* GENERATED_PATTERNS anchored at the end: \.lock$ \.log$ \.map$ \.min\.(js|css)$ \.d\.ts$
GeneratedSuffixes ==
    { <<".", "l", "o", "c", "k">>,
      <<".", "l", "o", "g">>,
      <<".", "m", "a", "p">>,
      <<".", "m", "i", "n", ".", "j", "s">>,
      <<".", "m", "i", "n", ".", "c", "s", "s">>,
      <<".", "d", ".", "t", "s">> }

\* GENERATED_PATTERNS matched anywhere (case-sensitive)
GeneratedInfixes ==
    { <<"/", "d", "i", "s", "t", "/">>,
      <<"/", "b", "u", "i", "l", "d", "/">>,
      <<"/", ".", "n", "e", "x", "t", "/">>,
      <<"/", ".", "c", "a", "c", "h", "e", "/">>,
      <<"/", "c", "o", "v", "e", "r", "a", "g", "e", "/">>,
      <<"/", "n", "o", "d", "e", "_", "m", "o", "d", "u", "l", "e", "s", "/">>,
      <<".", "g", "e", "n", "e", "r", "a", "t", "e", "d", ".">> }

\* TEST_PATTERNS, all case-insensitive and unanchored
TestInfixes ==
    { <<"/", "t", "e", "s", "t", "/">>,
      <<"/", "t", "e", "s", "t", "s", "/">>,
      <<"/", "e", "2", "e", "/">>,
      <<"/", "_", "_", "t", "e", "s", "t", "s", "_", "_", "/">>,
      <<"/", "p", "l", "a", "y", "w", "r", "i", "g", "h", "t", "/">>,
      <<"/", "c", "y", "p", "r", "e", "s", "s", "/">>,
      <<".", "t", "e", "s", "t", ".">>,
      <<".", "s", "p", "e", "c", ".">>,
      <<".", "e", "2", "e", ".">>,
      <<"/", "_", "_", "m", "o", "c", "k", "s", "_", "_", "/">>,
      <<"/", ".", "s", "t", "o", "r", "y", "b", "o", "o", "k", "/">> }

\* DOCS_PATTERNS matched anywhere, case-insensitive
DocsInfixes ==
    { <<"/", "d", "o", "c", "/">>,
      <<"/", "d", "o", "c", "s", "/">>,
      <<"/", "d", "o", "c", "u", "m", "e", "n", "t", "a", "t", "i", "o", "n", "/">>,
      <<"r", "e", "a", "d", "m", "e">>,
      <<"c", "h", "a", "n", "g", "e", "l", "o", "g">>,
      <<"l", "i", "c", "e", "n", "s", "e">> }

\* DOCS_PATTERNS \.mdx?$ (case-insensitive)
DocsSuffixes ==
    { <<".", "m", "d">>,
      <<".", "m", "d", "x">> }

\* CONFIG_PATTERNS anchored at the end (case-sensitive)
ConfigSuffixes ==
    { <<"p", "a", "c", "k", "a", "g", "e", ".", "j", "s", "o", "n">>,
      <<"t", "s", "c", "o", "n", "f", "i", "g", ".", "j", "s", "o", "n">>,
      <<".", "c", "o", "n", "f", "i", "g", ".", "j", "s">>,
      <<".", "c", "o", "n", "f", "i", "g", ".", "t", "s">>,
      <<".", "c", "o", "n", "f", "i", "g", ".", "m", "j", "s">>,
      <<".", "y", "m", "l">>,
      <<".", "y", "a", "m", "l">>,
      <<".", "t", "o", "m", "l">>,
      <<".", "g", "i", "t", "i", "g", "n", "o", "r", "e">>,
      <<".", "e", "d", "i", "t", "o", "r", "c", "o", "n", "f", "i", "g">> }

\* CONFIG_PATTERNS matched anywhere (case-sensitive)
ConfigInfixes ==
    { <<".", "e", "s", "l", "i", "n", "t", "r", "c">>,
      <<".", "p", "r", "e", "t", "t", "i", "e", "r", "r", "c">>,
      <<".", "e", "n", "v">>,
      <<"D", "o", "c", "k", "e", "r", "f", "i", "l", "e">>,
      <<"d", "o", "c", "k", "e", "r", "-", "c", "o", "m", "p", "o", "s", "e">> }

CodeExtensions ==
    { <<".", "t", "s">>,
      <<".", "t", "s", "x">>,
      <<".", "j", "s">>,
      <<".", "j", "s", "x">>,
      <<".", "m", "j", "s">>,
      <<".", "p", "y">>,
      <<".", "j", "a", "v", "a">>,
      <<".", "g", "o">>,
      <<".", "r", "s">>,
      <<".", "c">>,
      <<".", "c", "p", "p">>,
      <<".", "r", "b">>,
      <<".", "p", "h", "p">>,
      <<".", "s", "w", "i", "f", "t">>,
      <<".", "k", "t">> }


\* classifyFile: first matching class in the order generated, test, docs,
\* config, code, else other.
classifyFile(p) ==
    LET lp == ToLower(p) IN
    IF \/ \E s \in GeneratedSuffixes : EndsWith(p, s)
       \/ \E s \in GeneratedInfixes : Includes(p, s)
    THEN "generated"
    ELSE IF \E s \in TestInfixes : Includes(lp, s)
    THEN "test"
    ELSE IF \/ \E s \in DocsInfixes : Includes(lp, s)
            \/ \E s \in DocsSuffixes : EndsWith(lp, s)
    THEN "docs"
    ELSE IF \/ \E s \in ConfigSuffixes : EndsWith(p, s)
            \/ \E s \in ConfigInfixes : Includes(p, s)
    THEN "config"
    ELSE IF ToLower(Extname(p)) \in CodeExtensions
    THEN "code"
    ELSE "other"

isCanonical(p) == classifyFile(p) \in {"code", "config"}

(***************************************************************************)
(* Structural scorer (BrainInspiredScorer, exported as ManticEngine)       *)
(***************************************************************************)

\* One unit of the program's score.
ScoreScale == 1000

\* INTENT_DIRECTORY_WEIGHTS: per category, <<directory key, weight in tenths>>.
INTENT_DIRECTORY_WEIGHTS(cat) ==
    CASE cat = "UI" ->
        { <<<<"c", "o", "m", "p", "o", "n", "e", "n", "t", "s", "/">>, 10>>,
          <<<<"a", "p", "p", "/">>, 9>>,
          <<<<"p", "a", "g", "e", "s", "/">>, 9>>,
          <<<<"u", "i", "/">>, 10>>,
          <<<<"v", "i", "e", "w", "s", "/">>, 8>>,
          <<<<"s", "r", "c", "/", "c", "o", "m", "p", "o", "n", "e", "n", "t", "s", "/">>, 10>>,
          <<<<"s", "t", "y", "l", "e", "s", "/">>, 3>>,
          <<<<"l", "i", "b", "/">>, 2>>,
          <<<<"u", "t", "i", "l", "s", "/">>, 1>>,
          <<<<"a", "p", "i", "/">>, 0>>,
          <<<<"s", "e", "r", "v", "e", "r", "/">>, 0>> }
      [] cat = "auth" ->
        { <<<<"a", "u", "t", "h", "/">>, 10>>,
          <<<<"m", "i", "d", "d", "l", "e", "w", "a", "r", "e", "/">>, 8>>,
          <<<<"l", "i", "b", "/", "a", "u", "t", "h">>, 10>>,
          <<<<"a", "p", "i", "/", "a", "u", "t", "h">>, 9>>,
          <<<<"c", "o", "m", "p", "o", "n", "e", "n", "t", "s", "/">>, 3>>,
          <<<<"p", "a", "g", "e", "s", "/">>, 3>>,
          <<<<"s", "e", "r", "v", "e", "r", "/">>, 5>>,
          <<<<"s", "t", "y", "l", "e", "s", "/">>, 0>> }
      [] cat = "backend" ->
        { <<<<"a", "p", "i", "/">>, 10>>,
          <<<<"s", "e", "r", "v", "e", "r", "/">>, 10>>,
          <<<<"s", "e", "r", "v", "i", "c", "e", "s", "/">>, 9>>,
          <<<<"l", "i", "b", "/">>, 7>>,
          <<<<"m", "o", "d", "e", "l", "s", "/">>, 8>>,
          <<<<"d", "b", "/">>, 9>>,
          <<<<"r", "o", "u", "t", "e", "s", "/">>, 9>>,
          <<<<"p", "a", "c", "k", "a", "g", "e", "s", "/">>, 8>>,
          <<<<"a", "p", "p", "s", "/">>, 7>>,
          <<<<"f", "e", "a", "t", "u", "r", "e", "s", "/">>, 9>>,
          <<<<"w", "o", "r", "k", "f", "l", "o", "w", "s", "/">>, 9>>,
          <<<<"e", "e", "/">>, 8>>,
          <<<<"c", "o", "m", "p", "o", "n", "e", "n", "t", "s", "/">>, 1>>,
          <<<<"s", "t", "y", "l", "e", "s", "/">>, 0>> }
      [] cat = "styling" ->
        { <<<<"s", "t", "y", "l", "e", "s", "/">>, 10>>,
          <<<<"c", "s", "s", "/">>, 10>>,
          <<<<"t", "h", "e", "m", "e", "/">>, 9>>,
          <<<<"u", "i", "/">>, 6>>,
          <<<<"c", "o", "m", "p", "o", "n", "e", "n", "t", "s", "/">>, 5>>,
          <<<<"l", "i", "b", "/">>, 2>>,
          <<<<"a", "p", "i", "/">>, 0>>,
          <<<<"s", "e", "r", "v", "e", "r", "/">>, 0>> }
      [] cat = "performance" ->
        { <<<<"u", "t", "i", "l", "s", "/">>, 8>>,
          <<<<"l", "i", "b", "/">>, 8>>,
          <<<<"h", "o", "o", "k", "s", "/">>, 7>>,
          <<<<"m", "i", "d", "d", "l", "e", "w", "a", "r", "e", "/">>, 7>>,
          <<<<"c", "o", "m", "p", "o", "n", "e", "n", "t", "s", "/">>, 4>>,
          <<<<"a", "p", "i", "/">>, 5>>,
          <<<<"s", "t", "y", "l", "e", "s", "/">>, 1>> }
      [] cat = "testing" ->
        { <<<<"t", "e", "s", "t", "s", "/">>, 10>>,
          <<<<"_", "_", "t", "e", "s", "t", "s", "_", "_", "/">>, 10>>,
          <<<<"t", "e", "s", "t", "/">>, 10>>,
          <<<<"e", "2", "e", "/">>, 9>>,
          <<<<"s", "p", "e", "c", "/">>, 10>>,
          <<<<"c", "o", "m", "p", "o", "n", "e", "n", "t", "s", "/">>, 0>>,
          <<<<"l", "i", "b", "/">>, 0>> }
      [] cat = "config" ->
        { <<<<".">>, 9>>,
          <<<<"c", "o", "n", "f", "i", "g", "/">>, 10>>,
          <<<<"l", "i", "b", "/">>, 3>>,
          <<<<"s", "r", "c", "/">>, 1>>,
          <<<<"c", "o", "m", "p", "o", "n", "e", "n", "t", "s", "/">>, 0>> }
      [] cat = "general" ->
        { <<<<"s", "r", "c", "/">>, 5>>,
          <<<<"l", "i", "b", "/">>, 5>>,
          <<<<"c", "o", "m", "p", "o", "n", "e", "n", "t", "s", "/">>, 5>>,
          <<<<"u", "t", "i", "l", "s", "/">>, 5>> }

\* EXTENSION_WEIGHTS in hundredths.
EXTENSION_WEIGHTS ==
    { <<<<".", "t", "s">>, 100>>,
      <<<<".", "t", "s", "x">>, 100>>,
      <<<<".", "j", "s">>, 90>>,
      <<<<".", "j", "s", "x">>, 90>>,
      <<<<".", "p", "y">>, 100>>,
      <<<<".", "g", "o">>, 100>>,
      <<<<".", "r", "s">>, 100>>,
      <<<<".", "j", "a", "v", "a">>, 80>>,
      <<<<".", "c", "p", "p">>, 80>>,
      <<<<".", "c">>, 80>>,
      <<<<".", "h">>, 70>>,
      <<<<".", "c", "s", "s">>, 30>>,
      <<<<".", "s", "c", "s", "s">>, 30>>,
      <<<<".", "j", "s", "o", "n">>, 10>>,
      <<<<".", "m", "d">>, 5>>,
      <<<<".", "m", "d", "x">>, 5>>,
      <<<<".", "t", "x", "t">>, 0>>,
      <<<<".", "y", "m", "l">>, 80>>,
      <<<<".", "y", "a", "m", "l">>, 80>> }

IMPORTANT_CONFIG_FILES ==
    { <<"d", "o", "c", "k", "e", "r", "f", "i", "l", "e">>,
      <<"m", "a", "k", "e", "f", "i", "l", "e">>,
      <<"r", "a", "k", "e", "f", "i", "l", "e">>,
      <<"g", "e", "m", "f", "i", "l", "e">>,
      <<"p", "r", "o", "c", "f", "i", "l", "e">>,
      <<"j", "e", "n", "k", "i", "n", "s", "f", "i", "l", "e">> }

NON_IMPLEMENTATION_PATTERNS ==
    { <<"/", "d", "o", "c", "s", "/">>,
      <<"/", "d", "o", "c", "/">>,
      <<"/", "t", "e", "s", "t", "/">>,
      <<"/", "t", "e", "s", "t", "s", "/">>,
      <<"/", "e", "2", "e", "/">>,
      <<"/", "_", "_", "t", "e", "s", "t", "s", "_", "_", "/">>,
      <<"/", "p", "l", "a", "y", "w", "r", "i", "g", "h", "t", "/">>,
      <<"/", "c", "y", "p", "r", "e", "s", "s", "/">>,
      <<"/", "_", "_", "m", "o", "c", "k", "s", "_", "_", "/">>,
      <<"/", "e", "x", "a", "m", "p", "l", "e", "s", "/">>,
      <<"/", "s", "t", "o", "r", "y", "b", "o", "o", "k", "/">>,
      <<".", "t", "e", "s", "t", ".">>,
      <<".", "s", "p", "e", "c", ".">>,
      <<".", "e", "2", "e", ".">> }

IMPLEMENTATION_DIRECTORY_PATTERNS ==
    { <<"/", "s", "r", "c", "/">>,
      <<"/", "l", "i", "b", "/">>,
      <<"/", "m", "o", "d", "u", "l", "e", "/">>,
      <<"/", "m", "o", "d", "u", "l", "e", "s", "/">>,
      <<"/", "s", "e", "r", "v", "i", "c", "e", "/">>,
      <<"/", "s", "e", "r", "v", "i", "c", "e", "s", "/">>,
      <<"/", "a", "p", "i", "/">>,
      <<"/", "s", "e", "r", "v", "e", "r", "/">>,
      <<"/", "c", "o", "r", "e", "/">>,
      <<"/", "f", "e", "a", "t", "u", "r", "e", "/">>,
      <<"/", "f", "e", "a", "t", "u", "r", "e", "s", "/">> }

GENERIC_FILE_PATTERNS ==
    { <<"/", "p", "a", "g", "e", ".", "t", "s", "x">>,
      <<"/", "p", "a", "g", "e", ".", "t", "s">>,
      <<"/", "l", "a", "y", "o", "u", "t", ".", "t", "s", "x">>,
      <<"/", "l", "a", "y", "o", "u", "t", ".", "t", "s">>,
      <<"/", "r", "o", "u", "t", "e", ".", "t", "s", "x">>,
      <<"/", "r", "o", "u", "t", "e", ".", "t", "s">>,
      <<"/", "i", "n", "d", "e", "x", ".", "t", "s">>,
      <<"/", "i", "n", "d", "e", "x", ".", "t", "s", "x">>,
      <<"/", "i", "n", "d", "e", "x", ".", "j", "s">>,
      <<"/", "a", "p", "p", ".", "t", "s", "x">>,
      <<"/", "a", "p", "p", ".", "t", "s">>,
      <<"/", "m", "a", "i", "n", ".", "t", "s">>,
      <<"/", "m", "a", "i", "n", ".", "j", "s">> }

BUSINESS_LOGIC_PATTERNS ==
    { <<".", "s", "e", "r", "v", "i", "c", "e", ".">>,
      <<".", "c", "o", "n", "t", "r", "o", "l", "l", "e", "r", ".">>,
      <<".", "h", "a", "n", "d", "l", "e", "r", ".">>,
      <<".", "r", "e", "p", "o", "s", "i", "t", "o", "r", "y", ".">>,
      <<".", "m", "a", "n", "a", "g", "e", "r", ".">>,
      <<".", "p", "r", "o", "v", "i", "d", "e", "r", ".">>,
      <<".", "h", "e", "l", "p", "e", "r", ".">>,
      <<".", "u", "t", "i", "l", ".">>,
      <<".", "u", "t", "i", "l", "s", ".">>,
      <<".", "m", "o", "d", "e", "l", ".">>,
      <<".", "s", "c", "h", "e", "m", "a", ".">> }

BinaryAssetExtensions ==
    { <<".", "p", "n", "g">>,
      <<".", "j", "p", "g">>,
      <<".", "g", "i", "f">>,
      <<".", "s", "v", "g">>,
      <<".", "i", "c", "o">>,
      <<".", "w", "o", "f", "f">>,
      <<".", "t", "t", "f">> }

EliminatedSuffixes ==
    { <<".", "l", "o", "c", "k">>,
      <<".", "l", "o", "g">>,
      <<".", "m", "a", "p">> }


\* eliminateByStructure: the filter predicate (TRUE keeps the file).
KeptByStructure(p) ==
    /\ ToLower(Extname(p)) \notin BinaryAssetExtensions
    /\ \A s \in EliminatedSuffixes : ~EndsWith(p, s)

eliminateByStructure(fs) == SelectSeq(fs, KeptByStructure)

\* weightedDir.replace(/\/$/, '')
StripTrailingSlash(d) ==
    IF Len(d) > 0 /\ d[Len(d)] = "/" THEN Slice(d, 1, Len(d) - 1) ELSE d

RECURSIVE SumWeights(_)
SumWeights(S) ==
    IF S = {} THEN 0
    ELSE LET e == CHOOSE x \in S : TRUE IN e[2] + SumWeights(S \ {e})

\* scoreByDirectory, in tenths: the weights of all directory keys that occur
\* as an interior segment or at the start of the path.
scoreByDirectory(p, cat) ==
    SumWeights({ e \in INTENT_DIRECTORY_WEIGHTS(cat) :
        LET dirName == StripTrailingSlash(e[1]) IN
        \/ Includes(p, <<"/">> \o dirName \o <<"/">>)
        \/ StartsWith(p, dirName \o <<"/">>) })

IsWordChar(c) == IsLetter(c) \/ c = "_" \/ c = "2"

IsWordAt(s, i) == i \in 1..Len(s) /\ IsWordChar(s[i])

\* \b between positions i-1 and i of s
BoundaryBefore(s, i) == IsWordAt(s, i - 1) # IsWordAt(s, i)

\* new RegExp(`\\b${kw}\\b`).test(s): kw is spliced into the pattern
\* unescaped, so a dot in kw matches any character.
WordRegexTest(s, kw) ==
    \E i \in 1..(Len(s) - Len(kw) + 1) :
        /\ BoundaryBefore(s, i)
        /\ \A k \in 1..Len(kw) : kw[k] = "." \/ kw[k] = s[i + k - 1]
        /\ BoundaryBefore(s, i + Len(kw))

\* filenameNoExt.replace(/[-_]/g, ' ')
NormalizeName(s) == [i \in 1..Len(s) |-> IF s[i] \in {"-", "_"} THEN " " ELSE s[i]]

\* One iteration of the keyword loop (program units).
KeywordMatch(filename, filenameNoExt, kw, nonImpl) ==
    IF filenameNoExt = kw THEN (IF nonImpl THEN 10 ELSE 100)
    ELSE IF Includes(filename, kw) THEN (IF nonImpl THEN 5 ELSE 50)
    ELSE IF WordRegexTest(NormalizeName(filenameNoExt), kw)
         THEN (IF nonImpl THEN 3 ELSE 30)
    ELSE 0

\* filename.replace(path.extname(filename), '')
StripExt(filename) == RemoveFirst(filename, Extname(filename))

KeywordScoreIn(filename, kw, nonImpl) ==
    KeywordMatch(filename, StripExt(filename), kw, nonImpl)

\* Contribution of one keyword to the filename score (program units).
KeywordScore(p, kwRaw, nonImpl) ==
    KeywordScoreIn(ToLower(Basename(p)), ToLower(kwRaw), nonImpl)

RECURSIVE SumKeywordScores(_, _, _)
SumKeywordScores(p, kws, nonImpl) ==
    IF Len(kws) = 0 THEN 0
    ELSE KeywordScore(p, Head(kws), nonImpl) + SumKeywordScores(p, Tail(kws), nonImpl)

\* The weight of an extension found in EXTENSION_WEIGHTS; 0 is falsy and
\* becomes 0.5.
WeightOrDefault(w) == IF w = 0 THEN 50 ELSE w

WeightAmong(hit) ==
    IF hit = {} THEN 50 ELSE WeightOrDefault((CHOOSE e \in hit : TRUE)[2])

\* EXTENSION_WEIGHTS[ext] || 0.5, with the important extension-less config
\* files at 1.0; in hundredths.
ExtensionWeightOf(ext, baseName) ==
    IF Len(ext) = 0 /\ baseName \in IMPORTANT_CONFIG_FILES THEN 100
    ELSE WeightAmong({ e \in EXTENSION_WEIGHTS : e[1] = ext })

ExtensionWeight(p) == ExtensionWeightOf(ToLower(Extname(p)), ToLower(Basename(p)))

\* this.sessionBoosts.get(filepath): boost factor in program units, 0 when
\* the path has no boost.  bs is a function from paths to boost factors.
SessionBoostOf(bs, p) == IF p \in DOMAIN bs THEN bs[p] ELSE 0

Max(a, b) == IF a >= b THEN a ELSE b

Min(a, b) == IF a <= b THEN a ELSE b

\* Step 1: the path holds a non-implementation pattern.
IsNonImplementation(lowerPath) ==
    \E s \in NON_IMPLEMENTATION_PATTERNS : Includes(lowerPath, s)

\* Step 4: implementation boost.
ImplementationBoost(lowerPath, nonImpl) ==
    IF ~nonImpl /\ \E s \in IMPLEMENTATION_DIRECTORY_PATTERNS : Includes(lowerPath, s)
    THEN 40 * ScoreScale ELSE 0

\* Step 5: business logic x1.5, generic file x0.3.
HeuristicAdjust(lowerPath, score) ==
    IF \E s \in BUSINESS_LOGIC_PATTERNS : Includes(lowerPath, s)
    THEN (score * 15) \div 10
    ELSE IF \E s \in GENERIC_FILE_PATTERNS : Includes(lowerPath, s)
    THEN (score * 3) \div 10
    ELSE score

\* Step 8: canonical boost, test and docs penalties.
FileTypeAdjust(p, score) ==
    IF isCanonical(p) THEN score + 30 * ScoreScale
    ELSE IF classifyFile(p) = "test" THEN score - 40 * ScoreScale
    ELSE IF classifyFile(p) = "docs" THEN score - 50 * ScoreScale
    ELSE score

\* Steps 2 to 9 of scoreUltraFast, in 1/ScoreScale units.
RawScoreWith(p, lowerPath, nonImpl, kws, cat, bs) ==
    FileTypeAdjust(p,
        (HeuristicAdjust(lowerPath,
              SumKeywordScores(p, kws, nonImpl) * ScoreScale
            + scoreByDirectory(p, cat) * 2 * ScoreScale
            + ImplementationBoost(lowerPath, nonImpl))
         * ExtensionWeight(p)) \div 100
        - Max(0, SplitDepth(p) - 5) * ScoreScale)
    + SessionBoostOf(bs, p) * ScoreScale

RawScoreLower(p, lowerPath, kws, cat, bs) ==
    RawScoreWith(p, lowerPath, IsNonImplementation(lowerPath), kws, cat, bs)

\* The score before the final clamp.
RawScore(p, kws, cat, bs) == RawScoreLower(p, ToLower(p), kws, cat, bs)

\* scoreUltraFast: return Math.max(0, score)
scoreUltraFast(p, kws, cat, bs) == Max(0, RawScore(p, kws, cat, bs))

\* A comparator without the tie-breaker on the path.
RankCompareScoreOnly(a, b) == b.score - a.score

\* The comparator of rankFiles' sort: negative when a sorts before b.
RankCompare(a, b) ==
    IF b.score # a.score THEN b.score - a.score
    ELSE LocaleCompare(a.path, b.path)

\* Array.prototype.sort is stable: an element is inserted after every
\* element that does not compare greater than it.
RECURSIVE InsertRanked(_, _)
InsertRanked(sorted, x) ==
    IF Len(sorted) = 0 THEN <<x>>
    ELSE LET last == sorted[Len(sorted)] IN
         IF RankCompare(last, x) <= 0 THEN Append(sorted, x)
         ELSE Append(InsertRanked(Slice(sorted, 1, Len(sorted) - 1), x), last)

RECURSIVE SortRanked(_)
SortRanked(xs) ==
    IF Len(xs) = 0 THEN <<>>
    ELSE InsertRanked(SortRanked(Slice(xs, 1, Len(xs) - 1)), xs[Len(xs)])

\* scored.slice(0, 100)
TopResults == 100

\* The reasons pushed by rankFiles for a score.
RankReasons(score) ==
    (IF score > 100 * ScoreScale THEN <<"filename-match">> ELSE <<>>)
    \o (IF score > 50 * ScoreScale THEN <<"keyword-match">> ELSE <<>>)

EntryOf(p, score) == [path |-> p, score |-> score, reasons |-> RankReasons(score)]

ScoredEntry(p, kws, cat, bs) == EntryOf(p, scoreUltraFast(p, kws, cat, bs))

\* Stage 2 before the score > 0 test.
ScoreAll(kept, kws, cat, bs) ==
    [i \in 1..Len(kept) |-> ScoredEntry(kept[i], kws, cat, bs)]

\* scored.slice(0, 100)
TopFiles(sorted) == Slice(sorted, 1, Min(Len(sorted), TopResults))

\* rankFiles: eliminate, score, keep score > 0, sort, take the top 100.
rankFiles(fs, kws, cat, bs) ==
    TopFiles(SortRanked(SelectSeq(ScoreAll(eliminateByStructure(fs), kws, cat, bs),
                                  LAMBDA e : e.score > 0)))

(***************************************************************************)
(* Smart filter (index-aware rescoring)                                    *)
(***************************************************************************)

ComponentHints ==
    { <<"c", "o", "m", "p", "o", "n", "e", "n", "t">>,
      <<"b", "u", "t", "t", "o", "n">>,
      <<"m", "o", "d", "a", "l">>,
      <<"f", "o", "r", "m">>,
      <<"c", "a", "r", "d">> }

isLikelyComponentName(kw) ==
    \/ Len(kw) > 0 /\ IsUpper(kw[1])
    \/ \E h \in ComponentHints : Includes(ToLower(kw), h)

\* The constraints generateConstraints pushes for one keyword, in push
\* order; selectivity in hundredths.
KeywordConstraints(kw) ==
    <<[type |-> "import", value |-> kw, cost |-> 2, selectivity |-> 85],
      [type |-> "export", value |-> kw, cost |-> 2, selectivity |-> 90]>>
    \o (IF isLikelyComponentName(kw)
        THEN <<[type |-> "component-type", value |-> kw, cost |-> 5, selectivity |-> 70]>>
        ELSE <<>>)
    \o <<[type |-> "keyword", value |-> kw, cost |-> 1, selectivity |-> 30],
         [type |-> "path", value |-> kw, cost |-> 1, selectivity |-> 50]>>

RECURSIVE AllKeywordConstraints(_)
AllKeywordConstraints(kws) ==
    IF Len(kws) = 0 THEN <<>>
    ELSE KeywordConstraints(Head(kws)) \o AllKeywordConstraints(Tail(kws))

\* generateConstraints: the usage constraint is pushed first.
generateConstraints(kws) ==
    <<[type |-> "usage", value |-> <<"*">>, cost |-> 8, selectivity |-> 60]>>
    \o AllKeywordConstraints(kws)

\* selectivity / (cost + 0.1) of a is greater than that of b
BetterRatio(a, b) ==
    a.selectivity * (10 * b.cost + 1) > b.selectivity * (10 * a.cost + 1)

\* Stable sort by descending ratio.
RECURSIVE InsertByRatio(_, _)
InsertByRatio(sorted, c) ==
    IF Len(sorted) = 0 THEN <<c>>
    ELSE LET last == sorted[Len(sorted)] IN
         IF BetterRatio(c, last)
         THEN Append(InsertByRatio(Slice(sorted, 1, Len(sorted) - 1), c), last)
         ELSE Append(sorted, c)

RECURSIVE sequenceConstraints(_)
sequenceConstraints(cs) ==
    IF Len(cs) = 0 THEN <<>>
    ELSE InsertByRatio(sequenceConstraints(Slice(cs, 1, Len(cs) - 1)), cs[Len(cs)])

\* path.basename(filePath, path.extname(filePath))
Stem(p) ==
    LET b == Basename(p)
    IN  Slice(b, 1, Len(b) - Len(Extname(p)))

\* checkFileUsage: the file has an export and some import of the index
\* names its stem.
checkFileUsage(p, idx) ==
    /\ p \in DOMAIN idx
    /\ idx[p].exports # {}
    /\ \E q \in DOMAIN idx : \E imp \in idx[q].imports :
          \/ Includes(imp.source, Stem(p))
          \/ \E n \in imp.names : Includes(n, Stem(p))

\* The score change one constraint makes to one file (program units).
ConstraintDelta(c, p, idx) ==
    LET kw == ToLower(c.value) IN
    CASE c.type = "import" ->
           IF p \in DOMAIN idx /\ \E imp \in idx[p].imports :
                 \/ Includes(ToLower(imp.source), kw)
                 \/ \E n \in imp.names : Includes(ToLower(n), kw)
           THEN 20 ELSE 0
      [] c.type = "export" ->
           IF p \in DOMAIN idx /\ \E e \in idx[p].exports : Includes(ToLower(e), kw)
           THEN 25 ELSE 0
      [] c.type = "component-type" ->
           IF p \in DOMAIN idx /\
              (\/ \E e \in idx[p].components : Includes(ToLower(e), kw)
               \/ idx[p].components # {} /\ Includes(ToLower(Stem(p)), kw))
           THEN 15 ELSE 0
      [] c.type = "keyword" ->
           IF p \in DOMAIN idx /\ \E k \in idx[p].keywords : Includes(ToLower(k), kw)
           THEN 5 ELSE 0
      [] c.type = "path" ->
           IF ToLower(Stem(p)) = kw THEN 100
           ELSE IF Includes(ToLower(p), kw) THEN 3
           ELSE 0
      [] c.type = "usage" ->
           IF checkFileUsage(p, idx) THEN 30 ELSE -50

\* applyConstraint: every file of the map gets the constraint's delta.
applyConstraint(scored, c, idx) ==
    [i \in 1..Len(scored) |->
        [scored[i] EXCEPT !.score = @ + ConstraintDelta(c, scored[i].path, idx) * ScoreScale]]

\* Early termination of applyConstraints: five files above 50.
EarlyStop(scored) ==
    Cardinality({i \in 1..Len(scored) : scored[i].score > 50 * ScoreScale}) >= 5

RECURSIVE ApplyInOrder(_, _, _)
ApplyInOrder(scored, cs, idx) ==
    IF Len(cs) = 0 THEN scored
    ELSE IF EarlyStop(applyConstraint(scored, Head(cs), idx))
         THEN applyConstraint(scored, Head(cs), idx)
         ELSE ApplyInOrder(applyConstraint(scored, Head(cs), idx), Tail(cs), idx)

\* Keys of a Map built by inserting the elements of fs in order.
RECURSIVE Dedup(_)
Dedup(fs) ==
    IF Len(fs) = 0 THEN <<>>
    ELSE LET front == Dedup(Slice(fs, 1, Len(fs) - 1))
             x == fs[Len(fs)]
         IN  IF \E i \in 1..Len(front) : front[i] = x THEN front ELSE Append(front, x)

\* applyConstraints: all files start at score 0.
ZeroScores(keys) == [i \in 1..Len(keys) |-> [path |-> keys[i], score |-> 0]]

applyConstraints(fs, cs, idx) == ApplyInOrder(ZeroScores(Dedup(fs)), cs, idx)

\* Stable sort by descending score, no tie-breaker.
RECURSIVE InsertByScore(_, _)
InsertByScore(sorted, x) ==
    IF Len(sorted) = 0 THEN <<x>>
    ELSE LET last == sorted[Len(sorted)] IN
         IF x.score > last.score
         THEN Append(InsertByScore(Slice(sorted, 1, Len(sorted) - 1), x), last)
         ELSE Append(sorted, x)

RECURSIVE SortByScore(_)
SortByScore(xs) ==
    IF Len(xs) = 0 THEN <<>>
    ELSE InsertByScore(SortByScore(Slice(xs, 1, Len(xs) - 1)), xs[Len(xs)])

\* Steps 4.5 and 4.6: +200 for recently modified files, +150 for the
\* context files of the previous request.
BoostRecentAndContext(base, recent, ctx) ==
    [i \in 1..Len(base) |->
        [path |-> base[i].path,
         score |-> base[i].score
            + (IF base[i].path \in recent THEN 200 * ScoreScale ELSE 0)
            + (IF base[i].path \in ctx THEN 150 * ScoreScale ELSE 0),
         tags |-> (IF base[i].path \in recent THEN <<"recently-modified">> ELSE <<>>)
                  \o (IF base[i].path \in ctx THEN <<"context-carryover">> ELSE <<>>)]]

\* Step 5: the top 50 of the stable sort.
TopFifty(sorted) == Slice(sorted, 1, Min(Len(sorted), 50))

\* Step 6: exact lines are looked for in the top ten; ex holds the paths in
\* which findExactLines finds a line.
WithLines(topResults, ex) ==
    [i \in 1..Len(topResults) |->
        [path |-> topResults[i].path, score |-> topResults[i].score,
         tags |-> topResults[i].tags,
         hasLines |-> i <= 10 /\ topResults[i].path \in ex]]

\* The files with matched lines, or the top five when there is none.
MatchesOrTopFive(withLines, filesWithMatches) ==
    IF Len(filesWithMatches) > 0 THEN filesWithMatches
    ELSE Slice(withLines, 1, Min(Len(withLines), 5))

ReturnedFiles(withLines) ==
    MatchesOrTopFive(withLines, SelectSeq(withLines, LAMBDA f : f.hasLines))

\* getPrimaryKeyword: generic UI terms that are usually not the target.
genericTerms ==
    { <<"b", "u", "t", "t", "o", "n">>, <<"f", "o", "r", "m">>, <<"m", "o", "d", "a", "l">>, <<"d", "i", "a", "l", "o", "g">>, <<"i", "n", "p", "u", "t">>, <<"c", "a", "r", "d">>,
      <<"m", "e", "n", "u">>, <<"n", "a", "v">>, <<"h", "e", "a", "d", "e", "r">>, <<"f", "o", "o", "t", "e", "r">>, <<"c", "o", "m", "p", "o", "n", "e", "n", "t">>, <<"p", "a", "g", "e">>,
      <<"r", "e", "n", "a", "m", "e">>, <<"c", "h", "a", "n", "g", "e">>, <<"u", "p", "d", "a", "t", "e">>, <<"f", "i", "x">>, <<"a", "d", "d">>, <<"r", "e", "m", "o", "v", "e">>,
      <<"c", "o", "p", "y">>, <<"l", "i", "n", "k">>, <<"c", "l", "i", "c", "k">>, <<"s", "u", "b", "m", "i", "t">>, <<"c", "a", "n", "c", "e", "l">>, <<"f", "i", "l", "e">>, <<"t", "h", "e", "r", "e", "s">> }

IsDigit(c) == c \in {"0", "1", "2", "3", "4", "5", "6", "7", "8", "9"}

\* /^[a-z]+-[a-z0-9-]+$/i
KebabLike(kw) ==
    \E i \in 2..(Len(kw) - 1) :
        /\ kw[i] = "-"
        /\ \A j \in 1..(i - 1) : IsLetter(kw[j])
        /\ \A j \in (i + 1)..Len(kw) : IsLetter(kw[j]) \/ IsDigit(kw[j]) \/ kw[j] = "-"

\* /^[A-Z][a-zA-Z]+$/
PascalLike(kw) ==
    /\ Len(kw) >= 2
    /\ IsUpper(kw[1])
    /\ \A j \in 2..Len(kw) : IsLetter(kw[j])

FilenameLike(kw) == KebabLike(kw) \/ PascalLike(kw)

\* A keyword the first loop of getPrimaryKeyword returns.
IsContentKeyword(kw) == ToLower(kw) \notin genericTerms /\ ~FilenameLike(kw)

\* The first element of kws that satisfies Test, <<>> (null) without one.
FirstKeyword(kws, Test(_)) ==
    IF \E i \in 1..Len(kws) : Test(kws[i])
    THEN kws[CHOOSE i \in 1..Len(kws) :
                 Test(kws[i]) /\ \A j \in 1..(i - 1) : ~Test(kws[j])]
    ELSE <<>>

NotFilenameLike(kw) == ~FilenameLike(kw)

\* getPrimaryKeyword(keywords); <<>> stands for null.
getPrimaryKeyword(kws) ==
    IF FirstKeyword(kws, IsContentKeyword) # <<>> THEN FirstKeyword(kws, IsContentKeyword)
    ELSE IF FirstKeyword(kws, NotFilenameLike) # <<>> THEN FirstKeyword(kws, NotFilenameLike)
    ELSE IF Len(kws) > 0 THEN kws[1]
    ELSE <<>>

\* The constraints applyConstraints applies before it ends or stops early.
RECURSIVE AppliedConstraints(_, _, _)
AppliedConstraints(scored, cs, idx) ==
    IF Len(cs) = 0 THEN <<>>
    ELSE IF EarlyStop(applyConstraint(scored, Head(cs), idx))
         THEN <<Head(cs)>>
         ELSE <<Head(cs)>> \o AppliedConstraints(applyConstraint(scored, Head(cs), idx),
                                                 Tail(cs), idx)

\* The constraints SmartFilter.search applies, in order, with no learned
\* pattern.
SearchOrder(fs, kws, idx) ==
    AppliedConstraints(ZeroScores(Dedup(fs)), sequenceConstraints(generateConstraints(kws)), idx)

\* SmartFilter.search with no learned pattern.  recent: the recently
\* modified paths; ctx: the context files of the previous request.
SmartSearch(fs, kws, idx, recent, ctx, ex) ==
    ReturnedFiles(WithLines(TopFifty(SortByScore(BoostRecentAndContext(
        applyConstraints(fs, sequenceConstraints(generateConstraints(kws)), idx),
        recent, ctx))), ex))

(***************************************************************************)
(* Inputs of the scoring specification                                     *)
(***************************************************************************)

\* File paths as the enumerator reports them (relative, forward slashes).
PathLogin == <<"s", "r", "c", "/", "a", "u", "t", "h", "/", "l", "o", "g", "i", "n", ".", "t", "s">>
PathLoginTest == <<"s", "r", "c", "/", "a", "u", "t", "h", "/", "l", "o", "g", "i", "n", ".", "t", "e", "s", "t", ".", "t", "s">>
PathDocsAuth == <<"d", "o", "c", "s", "/", "a", "u", "t", "h", ".", "m", "d">>
PathLibUpperB == <<"l", "i", "b", "/", "B", ".", "t", "s">>
PathLibLowerA == <<"l", "i", "b", "/", "a", ".", "t", "s">>
PathLogo == <<"a", "s", "s", "e", "t", "s", "/", "l", "o", "g", "o", ".", "p", "n", "g">>

PathUniverse ==
    {PathLogin, PathLoginTest, PathDocsAuth, PathLibUpperB, PathLibLowerA, PathLogo}

\* Keywords as the intent analyzer extracts them.
KwLogin == <<"l", "o", "g", "i", "n">>
KwAuth == <<"a", "u", "t", "h">>
KwStripe == <<"s", "t", "r", "i", "p", "e">>

SrcLoginModule == <<".", "/", "l", "o", "g", "i", "n">>
NameLogin == <<"l", "o", "g", "i", "n">>
NameLoginUser == <<"l", "o", "g", "i", "n", "U", "s", "e", "r">>

KwButton == <<"b", "u", "t", "t", "o", "n">>

KeywordLists ==
    { <<>>, <<KwStripe>>, <<KwLogin>>, <<KwLogin, KwAuth>>, <<KwLogin, KwButton, KwAuth>> }

Categories == {"general", "auth"}

\* Longest file list handed to the scorers.
MaxFiles == 3

Range(s) == {s[i] : i \in 1..Len(s)}

\* Sequences of distinct elements of S, of length at most n.
RECURSIVE DistinctSeqs(_, _)
DistinctSeqs(S, n) ==
    IF n = 0 THEN {<<>>}
    ELSE LET shorter == DistinctSeqs(S, n - 1)
         IN  shorter \cup
             UNION {{Append(s, x) : x \in S \ Range(s)} :
                       s \in {q \in shorter : Len(q) = n - 1}}

\* sessionBoosts as the scorer's constructor stores them: path -> boost.
NoBoosts == [p \in {} |-> 0]

BoostSets == {NoBoosts, [p \in {PathLoginTest} |-> 30]}

\* Entries of the semantic index the smart filter reads.
NoIndex == [p \in {} |-> [exports |-> {}, imports |-> {}, components |-> {}, keywords |-> {}]]

AuthIndex ==
    [p \in {PathLogin, PathLoginTest} |->
        IF p = PathLogin
        THEN [exports |-> {NameLoginUser}, imports |-> {},
              components |-> {}, keywords |-> {NameLogin}]
        ELSE [exports |-> {},
              imports |-> {[source |-> SrcLoginModule, names |-> {NameLoginUser}]},
              components |-> {}, keywords |-> {NameLogin}]]

IndexUniverse == {NoIndex, AuthIndex}

\* keywords.sort(): default order, by UTF-16 code unit.
RECURSIVE InsertKeyword(_, _)
InsertKeyword(sorted, k) ==
    IF Len(sorted) = 0 THEN <<k>>
    ELSE LET last == sorted[Len(sorted)] IN
         IF ByteLess(k, last)
         THEN Append(InsertKeyword(Slice(sorted, 1, Len(sorted) - 1), k), last)
         ELSE Append(sorted, k)

RECURSIVE SortKeywords(_)
SortKeywords(kws) ==
    IF Len(kws) = 0 THEN <<>>
    ELSE InsertKeyword(SortKeywords(Slice(kws, 1, Len(kws) - 1)), kws[Len(kws)])

NotCalled == [called |-> FALSE, out |-> <<>>]

(***************************************************************************)
(* Session manager                                                         *)
(***************************************************************************)

\* A session as startSession creates it: no viewed files, no queries.
NewSession ==
    [status |-> "active", queryCount |-> 0, viewedFiles |-> [p \in {} |-> 0]]

\* No session file in .mantic/sessions.
NoSession == [status |-> "missing", queryCount |-> 0, viewedFiles |-> [p \in {} |-> 0]]

\* viewCount of a path in a session; a path not in viewedFiles counts as 0.
ViewCount(session, p) ==
    IF p \in DOMAIN session.viewedFiles THEN session.viewedFiles[p] ELSE 0

\* A loop body that resets the count of a path instead of incrementing it.
RecordOneViewReset(viewed, p) ==
    [q \in DOMAIN viewed \cup {p} |-> IF q = p THEN 1 ELSE viewed[q]]

\* The body of recordFileViews' loop for one file.
RecordOneView(viewed, p) ==
    IF p \in DOMAIN viewed
    THEN [viewed EXCEPT ![p] = @ + 1]
    ELSE [q \in DOMAIN viewed \cup {p} |-> IF q = p THEN 1 ELSE viewed[q]]

RECURSIVE RecordViews(_, _)
RecordViews(viewed, paths) ==
    IF Len(paths) = 0 THEN viewed
    ELSE RecordViews(RecordOneView(viewed, Head(paths)), Tail(paths))

\* recordFileViews on the active session.
recordFileViews(session, paths) ==
    [session EXCEPT !.viewedFiles = RecordViews(@, paths)]

\* recordQuery on the active session.
recordQuery(session) ==
    [session EXCEPT !.queryCount = @ + 1]

(***************************************************************************)
(* processRequest: one invocation of the search pipeline                   *)
(***************************************************************************)

\* Queries with the result of their intent analysis.
Queries ==
    { [prompt |-> "fix login", category |-> "auth", keywords |-> <<KwLogin>>],
      [prompt |-> "stripe", category |-> "general", keywords |-> <<KwStripe>>] }

\* The --code / --config / --test option; "none" when absent.
FilterTypes == {"none", "code"}

\* The repository's files, in the order git ls-files lists them.
RepoFiles == <<PathLibUpperB, PathLibLowerA, PathLogin, PathLoginTest>>

Reverse(s) == [i \in 1..Len(s) |-> s[Len(s) + 1 - i]]

\* Orders in which the enumerator can report an unchanged repository: git
\* ls-files is sorted, a parallel directory walk is not.
Enumerations == {RepoFiles, Reverse(RepoFiles)}

\* Concurrent or successive invocations of the command.
MaxInvocations == 2

Invocations == 1..MaxInvocations

\* Longest scan, in clock ticks between startTime and the end of the scan.
MaxElapsed == 2

\* The boosts processRequest hands to the engine it constructs.
EngineBoosts == NoBoosts

\* The result record built from the ranking (buildContextResult).
buildContextResult(q, scored, allFiles, scanTimeMs) ==
    [query |-> q.prompt,
     intent |-> [category |-> q.category, keywords |-> q.keywords],
     files |-> [i \in 1..Len(scored) |->
                  [path |-> scored[i].path,
                   relevanceScore |-> scored[i].score,
                   matchReasons |-> scored[i].reasons]],
     totalScanned |-> Len(allFiles),
     filesReturned |-> Len(scored),
     timeMs |-> scanTimeMs]

\* Phase 2 of processRequest after the scan: ranking by a fresh engine, the
\* --code/--config/--test filter, and the default exclusion of generated
\* files.
ScoredFilesOf(q, filter, allFiles) ==
    SelectSeq(
        SelectSeq(rankFiles(allFiles, q.keywords, q.category, EngineBoosts),
                  LAMBDA f : filter = "none" \/ classifyFile(f.path) = filter),
        LAMBDA f : classifyFile(f.path) # "generated")

\* ScoredFilesOf over the inputs of the specification, computed once.
ScoredFilesTable ==
    [q \in Queries, filter \in FilterTypes, allFiles \in Enumerations |->
        ScoredFilesOf(q, filter, allFiles)]

\* Phases 1-3 of processRequest, up to the result record.
ContextResultOf(q, filter, allFiles, scanTimeMs) ==
    buildContextResult(q, ScoredFilesTable[q, filter, allFiles], allFiles, scanTimeMs)

NoResult ==
    [query |-> "", intent |-> [category |-> "", keywords |-> <<>>], files |-> <<>>,
     totalScanned |-> 0, filesReturned |-> 0, timeMs |-> 0]

IdleInvocation ==
    [pc |-> "idle", useSession |-> FALSE, result |-> NoResult,
     active |-> NoSession, recorded |-> FALSE, after |-> {}]

PathsOf(result) == [i \in 1..Len(result.files) |-> result.files[i].path]

(***************************************************************************)
(* scanProject: the scan raced against the timeout timer                   *)
(***************************************************************************)

\* Values of the MANTIC_TIMEOUT environment variable: unset, empty or
\* not a number, zero or negative, a positive number of milliseconds.
EnvValues ==
    { [set |-> FALSE, isNaN |-> FALSE, parsed |-> 0],
      [set |-> TRUE, isNaN |-> TRUE, parsed |-> 0],
      [set |-> TRUE, isNaN |-> FALSE, parsed |-> 0],
      [set |-> TRUE, isNaN |-> FALSE, parsed |-> -5000],
      [set |-> TRUE, isNaN |-> FALSE, parsed |-> 10000],
      [set |-> TRUE, isNaN |-> FALSE, parsed |-> 20000] }

DefaultTimeout == 30000

\* getTimeout()
getTimeout(e) ==
    IF e.set /\ ~e.isNaN /\ e.parsed > 0 THEN e.parsed ELSE DefaultTimeout

\* Stretches of the internal scan between two turns of the event loop; the
\* last one runs from the last awaited I/O to the return.
ScanStages == 3

\* Duration of one stretch, in milliseconds.
StepDurations == {5000, 10000, 15000}

\* The result the catch block builds on timeout.
EmptyScanResult == [fileStructure |-> <<>>, scoredFiles |-> <<>>]

\* The result of the internal scan of the repository.
FullScanResult ==
    [fileStructure |-> RepoFiles,
     scoredFiles |-> rankFiles(RepoFiles, <<KwLogin>>, "auth", NoBoosts)]

\* The file whose write the internal scan awaits at the end of stretch s when
\* it takes the cached path (useCache and parseSemantics): cacheManager.save
\* before the smart filter runs, saveSessionContext before the return.
StageWrite(s) ==
    IF s = ScanStages - 2 THEN <<"index.json">>
    ELSE IF s = ScanStages - 1 THEN <<"session.json">>
    ELSE <<>>

\* semantic: the options select the cached path rather than the legacy scan;
\* writes: the files the internal scan has written, in order.
ScanStart ==
    [clock |-> 0, stage |-> 0, timerFired |-> FALSE, returned |-> FALSE,
     result |-> EmptyScanResult, internalEnd |-> -1,
     semantic |-> FALSE, writes |-> <<>>]

\* The timer's callback is due and has not run.
TimerDue == ~scan.timerFired /\ scan.clock >= getTimeout(env)

(***************************************************************************)
(* CacheManager and the in-memory cache of project indices                 *)
(***************************************************************************)

CACHE_VERSION == "1.0.0"

Versions == {CACHE_VERSION, "0.9.0"}

ProjectRoot == "/repo"

ProjectRoots == {ProjectRoot, "/moved"}

\* Names every object inherits from Object.prototype: cache.files[name] is
\* truthy for them whether or not the index has an entry of that name.
ObjectPrototypeKeys == {"constructor", "toString", "valueOf", "hasOwnProperty"}

CachePaths == {"src/a.ts", "src/b.ts", "constructor"}

\* Distinct (mtimeMs, size) pairs a file can have; 0 stands for a failing stat.
MaxStamp == 2

Stamps == 1..MaxStamp

\* An index without entries.
EmptyFiles == [p \in {} |-> [stamp |-> 0, lastParsed |-> ""]]

NullIndex == [present |-> FALSE, version |-> "", projectRoot |-> "", files |-> EmptyFiles]

\* A FileEntry written by an earlier scan.
EarlierEntry(s) == [stamp |-> s, lastParsed |-> "earlier"]

\* The FileEntry parseAndCacheFile writes.
FreshEntry(s) == [stamp |-> s, lastParsed |-> "now"]

IndexOf(v, r, fs) == [present |-> TRUE, version |-> v, projectRoot |-> r, files |-> fs]

FileMaps ==
    UNION { [ps -> {EarlierEntry(s) : s \in Stamps}] : ps \in SUBSET CachePaths }

\* Index files a run can find on disk.
DiskIndices ==
    {NullIndex}
    \cup { IndexOf(v, ProjectRoot, fs) : v \in Versions, fs \in FileMaps }
    \cup { IndexOf(CACHE_VERSION, r, fs) : r \in ProjectRoots, fs \in FileMaps }

\* A path of the worktree: whether the loader lists it and what stat reports.
PathStates ==
    {[listed |-> FALSE, stamp |-> 0]}
    \cup { [listed |-> TRUE, stamp |-> s] : s \in 0..MaxStamp }

IndexedPaths(cache) == DOMAIN cache.files

Listed(wt) == { p \in DOMAIN wt : wt[p].listed }

\* The truthiness of cache.files[filePath].
HasEntry(cache, p) == p \in IndexedPaths(cache) \/ p \in ObjectPrototypeKeys

\* entry.mtime and entry.size; an inherited member has neither.
EntryStamp(cache, p) == IF p \in IndexedPaths(cache) THEN cache.files[p].stamp ELSE -1

(***************************************************************************)
(* MemoryCache: a Map in insertion order                                   *)
(***************************************************************************)

maxSize == 3

MemEntry(k, d, f) == [key |-> k, data |-> d, fresh |-> f]

MemKeys(mem) == { mem[i].key : i \in 1..Len(mem) }

MemIndexOf(mem, k) == CHOOSE i \in 1..Len(mem) : mem[i].key = k

MemDelete(mem, k) == SelectSeq(mem, LAMBDA e : e.key # k)

MemReplace(mem, k, d, f) ==
    [i \in 1..Len(mem) |-> IF mem[i].key = k THEN MemEntry(k, d, f) ELSE mem[i]]

\* Map.set: an existing key keeps its position.
MapSet(mem, k, d, f) ==
    IF k \in MemKeys(mem) THEN MemReplace(mem, k, d, f)
    ELSE Append(mem, MemEntry(k, d, f))

\* MemoryCache.get: the Map after the call and the value returned.
MemGetEntry(mem, k, e) ==
    IF ~e.fresh THEN [mem |-> MemDelete(mem, k), data |-> NullIndex]
    ELSE [mem |-> Append(MemDelete(mem, k), e), data |-> e.data]

MemGet(mem, k) ==
    IF k \notin MemKeys(mem) THEN [mem |-> mem, data |-> NullIndex]
    ELSE MemGetEntry(mem, k, mem[MemIndexOf(mem, k)])

\* MemoryCache.set
MemSet(mem, k, d) ==
    MapSet(IF Len(mem) >= maxSize THEN Tail(mem) ELSE mem, k, d, TRUE)

\* Indices another part of the process may have left in memory.
MemoryIndices ==
    { IndexOf(v, ProjectRoot, [p \in {"src/a.ts"} |-> EarlierEntry(1)]) : v \in Versions }

OtherProjects == <<"/other1", "/other2", "/other3">>

OtherEntry(i) == MemEntry(OtherProjects[i], IndexOf(CACHE_VERSION, OtherProjects[i], EmptyFiles), TRUE)

Memories ==
    {<<>>, <<OtherEntry(1), OtherEntry(2), OtherEntry(3)>>}
    \cup { <<MemEntry(ProjectRoot, d, f)>> : d \in MemoryIndices, f \in BOOLEAN }
    \cup { <<MemEntry(ProjectRoot, d, TRUE), OtherEntry(1), OtherEntry(2)>> : d \in MemoryIndices }

(***************************************************************************)
(* CacheManager                                                            *)
(***************************************************************************)

\* CacheManager.load: memory and the value returned.
LoadFromDisk(mem, dsk) ==
    IF dsk.present THEN [mem |-> MemSet(mem, ProjectRoot, dsk), data |-> dsk]
    ELSE [mem |-> mem, data |-> NullIndex]

LoadAfterGet(got, dsk) ==
    IF got.data.present THEN got ELSE LoadFromDisk(got.mem, dsk)

load(mem, dsk) == LoadAfterGet(MemGet(mem, ProjectRoot), dsk)

\* The same check without strategy 1.
shouldInvalidateIgnoringVersion(cache, pkgChanged, tooOld) ==
    \/ cache.projectRoot # ProjectRoot
    \/ pkgChanged
    \/ tooOld

\* CacheManager.shouldInvalidate; whether package.json changed and whether
\* the index is older than 24 hours are inputs.
shouldInvalidate(cache, pkgChanged, tooOld) ==
    \/ cache.version # CACHE_VERSION
    \/ cache.projectRoot # ProjectRoot
    \/ pkgChanged
    \/ tooOld

AddedPaths(cache, wt) == { p \in Listed(wt) : ~HasEntry(cache, p) }

ModifiedPaths(cache, wt) ==
    { p \in Listed(wt) : /\ HasEntry(cache, p)
                         /\ wt[p].stamp # 0
                         /\ wt[p].stamp # EntryStamp(cache, p) }

\* Every own key of the index, visited or not.
DeletedPathsKeepingVisited(cache, wt) == IndexedPaths(cache)

\* What is left of cachedPaths after the loop.
DeletedPaths(cache, wt) ==
    IndexedPaths(cache) \ { p \in Listed(wt) : HasEntry(cache, p) }

\* CacheManager.getStaleFiles
getStaleFiles(cache, wt) ==
    [modified |-> ModifiedPaths(cache, wt),
     added |-> AddedPaths(cache, wt),
     deleted |-> DeletedPaths(cache, wt)]

NoChanges == [modified |-> {}, added |-> {}, deleted |-> {}]

\* Paths for which stat and readFile succeed.
Readable(wt, ps) == { p \in ps : wt[p].stamp # 0 }

\* parseAndCacheFile over a list of paths: an unreadable path is skipped.
ParseInto(fs, wt, ps) ==
    [p \in DOMAIN fs \cup Readable(wt, ps) |->
        IF p \in Readable(wt, ps) THEN FreshEntry(wt[p].stamp) ELSE fs[p]]

Restrict(fs, ps) == [p \in ps |-> fs[p]]

\* Leaves the entries of deleted paths in place.
RemoveDeletedNone(fs, deleted) == fs

\* delete cache.files[filePath] for every deleted path.
RemoveDeleted(fs, deleted) == Restrict(fs, DOMAIN fs \ deleted)

\* CacheManager.updateIncrementally
updateIncrementally(cache, changes, wt) ==
    [cache EXCEPT !.files = ParseInto(RemoveDeleted(cache.files, changes.deleted), wt,
                                      changes.modified \cup changes.added)]

\* CacheManager.buildFromScratch
buildFromScratch(wt) ==
    IndexOf(CACHE_VERSION, ProjectRoot, ParseInto(EmptyFiles, wt, Listed(wt)))

RunStart ==
    [pc |-> "start", cache |-> NullIndex, aliased |-> FALSE,
     changes |-> NoChanges, updated |-> FALSE]

\* The object in memory under the project's key is the one the scan mutates.
MemAlias(mem, cache, aliased) ==
    IF aliased /\ ProjectRoot \in MemKeys(mem)
    THEN MemReplace(mem, ProjectRoot, cache, mem[MemIndexOf(mem, ProjectRoot)].fresh)
    ELSE mem

(***************************************************************************)
(* IntentAnalyzer                                                          *)
(***************************************************************************)

\* The categories of INTENT_PATTERNS in the order of its keys, general left out.
IntentCategories == <<"UI", "auth", "styling", "performance", "backend", "testing", "config">>

\* The alternatives of each pattern; within one word "sign\s*up" and
\* "sign\s*in" can only match without white space.
INTENT_PATTERNS(cat) ==
    IF cat = "UI" THEN
        { <<"b", "u", "t", "t", "o", "n">>,
          <<"m", "o", "d", "a", "l">>,
          <<"d", "i", "a", "l", "o", "g">>,
          <<"f", "o", "r", "m">>,
          <<"i", "n", "p", "u", "t">>,
          <<"c", "a", "r", "d">>,
          <<"m", "e", "n", "u">>,
          <<"d", "r", "o", "p", "d", "o", "w", "n">>,
          <<"c", "o", "m", "p", "o", "n", "e", "n", "t">>,
          <<"n", "a", "v">>,
          <<"h", "e", "a", "d", "e", "r">>,
          <<"f", "o", "o", "t", "e", "r">>,
          <<"s", "i", "d", "e", "b", "a", "r">>,
          <<"s", "c", "r", "e", "e", "n">>,
          <<"p", "a", "g", "e">>,
          <<"v", "i", "e", "w">>,
          <<"o", "n", "b", "o", "a", "r", "d", "i", "n", "g">>,
          <<"w", "e", "l", "c", "o", "m", "e">>,
          <<"d", "a", "s", "h", "b", "o", "a", "r", "d">>,
          <<"p", "a", "n", "e", "l">>,
          <<"w", "i", "d", "g", "e", "t">>,
          <<"l", "a", "y", "o", "u", "t">> }
    ELSE IF cat = "auth" THEN
        { <<"a", "u", "t", "h">>,
          <<"l", "o", "g", "i", "n">>,
          <<"s", "i", "g", "n", "u", "p">>,
          <<"s", "i", "g", "n", "i", "n">>,
          <<"u", "s", "e", "r">>,
          <<"p", "r", "o", "f", "i", "l", "e">>,
          <<"s", "e", "s", "s", "i", "o", "n">>,
          <<"p", "a", "s", "s", "w", "o", "r", "d">>,
          <<"t", "o", "k", "e", "n">>,
          <<"c", "r", "e", "d", "e", "n", "t", "i", "a", "l">> }
    ELSE IF cat = "styling" THEN
        { <<"s", "t", "y", "l", "e">>,
          <<"t", "h", "e", "m", "e">>,
          <<"c", "o", "l", "o", "r">>,
          <<"d", "a", "r", "k">>,
          <<"l", "i", "g", "h", "t">>,
          <<"c", "s", "s">>,
          <<"t", "a", "i", "l", "w", "i", "n", "d">>,
          <<"r", "o", "u", "n", "d", "e", "d">>,
          <<"b", "o", "r", "d", "e", "r">>,
          <<"f", "o", "n", "t">>,
          <<"s", "p", "a", "c", "i", "n", "g">>,
          <<"l", "a", "y", "o", "u", "t">>,
          <<"d", "e", "s", "i", "g", "n">> }
    ELSE IF cat = "performance" THEN
        { <<"s", "l", "o", "w">>,
          <<"f", "a", "s", "t">>,
          <<"o", "p", "t", "i", "m", "i", "z", "e">>,
          <<"c", "a", "c", "h", "e">>,
          <<"l", "a", "z", "y">>,
          <<"m", "e", "m", "o">>,
          <<"p", "e", "r", "f", "o", "r", "m", "a", "n", "c", "e">>,
          <<"s", "p", "e", "e", "d">>,
          <<"b", "u", "n", "d", "l", "e">>,
          <<"l", "o", "a", "d">> }
    ELSE IF cat = "backend" THEN
        { <<"a", "p", "i">>,
          <<"e", "n", "d", "p", "o", "i", "n", "t">>,
          <<"s", "e", "r", "v", "e", "r">>,
          <<"d", "a", "t", "a", "b", "a", "s", "e">>,
          <<"q", "u", "e", "r", "y">>,
          <<"m", "u", "t", "a", "t", "i", "o", "n">>,
          <<"f", "e", "t", "c", "h">>,
          <<"r", "e", "q", "u", "e", "s", "t">>,
          <<"r", "e", "s", "p", "o", "n", "s", "e">>,
          <<"r", "o", "u", "t", "e">>,
          <<"b", "o", "o", "k", "i", "n", "g">>,
          <<"r", "e", "s", "e", "r", "v", "a", "t", "i", "o", "n">>,
          <<"a", "p", "p", "o", "i", "n", "t", "m", "e", "n", "t">>,
          <<"c", "o", "n", "f", "i", "r", "m", "a", "t", "i", "o", "n">>,
          <<"n", "o", "t", "i", "f", "i", "c", "a", "t", "i", "o", "n">>,
          <<"e", "m", "a", "i", "l">>,
          <<"p", "a", "y", "m", "e", "n", "t">>,
          <<"w", "e", "b", "h", "o", "o", "k">>,
          <<"w", "o", "r", "k", "f", "l", "o", "w">>,
          <<"s", "c", "h", "e", "d", "u", "l", "e">>,
          <<"c", "a", "l", "e", "n", "d", "a", "r">>,
          <<"e", "v", "e", "n", "t">>,
          <<"s", "l", "o", "t">>,
          <<"a", "v", "a", "i", "l", "a", "b", "i", "l", "i", "t", "y">>,
          <<"s", "t", "r", "i", "p", "e">>,
          <<"p", "a", "y", "p", "a", "l">>,
          <<"c", "h", "e", "c", "k", "o", "u", "t">>,
          <<"s", "u", "b", "s", "c", "r", "i", "p", "t", "i", "o", "n">>,
          <<"i", "n", "v", "o", "i", "c", "e">>,
          <<"b", "i", "l", "l", "i", "n", "g">>,
          <<"c", "h", "a", "r", "g", "e">>,
          <<"r", "e", "f", "u", "n", "d">>,
          <<"m", "e", "r", "c", "h", "a", "n", "t">>,
          <<"t", "r", "a", "n", "s", "a", "c", "t", "i", "o", "n">> }
    ELSE IF cat = "testing" THEN
        { <<"t", "e", "s", "t">>,
          <<"s", "p", "e", "c">>,
          <<"j", "e", "s", "t">>,
          <<"v", "i", "t", "e", "s", "t">>,
          <<"c", "y", "p", "r", "e", "s", "s">>,
          <<"e", "2", "e">>,
          <<"u", "n", "i", "t">>,
          <<"i", "n", "t", "e", "g", "r", "a", "t", "i", "o", "n">>,
          <<"m", "o", "c", "k">> }
    ELSE IF cat = "config" THEN
        { <<"c", "o", "n", "f", "i", "g">>,
          <<"e", "n", "v">>,
          <<"s", "e", "t", "t", "i", "n", "g", "s">>,
          <<"s", "e", "t", "u", "p">>,
          <<"i", "n", "s", "t", "a", "l", "l">>,
          <<"d", "e", "p", "e", "n", "d", "e", "n", "c", "y">>,
          <<"p", "a", "c", "k", "a", "g", "e">>,
          <<"t", "s", "c", "o", "n", "f", "i", "g">> }
    ELSE {}

\* STOP_WORDS; the words of one or two letters never reach the test.
STOP_WORDS ==
    { <<"t", "h", "e">>,
      <<"a", "n", "d">>,
      <<"b", "u", "t">>,
      <<"f", "o", "r">>,
      <<"w", "i", "t", "h">>,
      <<"f", "r", "o", "m">>,
      <<"w", "a", "s">>,
      <<"a", "r", "e">>,
      <<"w", "e", "r", "e">>,
      <<"b", "e", "e", "n">>,
      <<"h", "a", "v", "e">>,
      <<"h", "a", "s">>,
      <<"h", "a", "d">>,
      <<"d", "o", "e", "s">>,
      <<"d", "i", "d">>,
      <<"w", "i", "l", "l">>,
      <<"w", "o", "u", "l", "d">>,
      <<"s", "h", "o", "u", "l", "d">>,
      <<"c", "o", "u", "l", "d">>,
      <<"m", "a", "y">>,
      <<"m", "i", "g", "h", "t">>,
      <<"m", "u", "s", "t">>,
      <<"c", "a", "n">>,
      <<"y", "o", "u">>,
      <<"s", "h", "e">>,
      <<"t", "h", "e", "y">>,
      <<"y", "o", "u", "r">>,
      <<"h", "i", "s">>,
      <<"h", "e", "r">>,
      <<"i", "t", "s">>,
      <<"o", "u", "r">>,
      <<"t", "h", "e", "i", "r">>,
      <<"t", "h", "i", "s">>,
      <<"t", "h", "a", "t">>,
      <<"t", "h", "e", "s", "e">>,
      <<"t", "h", "o", "s", "e">>,
      <<"a", "l", "l">>,
      <<"s", "o", "m", "e">>,
      <<"w", "a", "n", "t">>,
      <<"n", "e", "e", "d">>,
      <<"m", "a", "k", "e">>,
      <<"g", "e", "t">>,
      <<"f", "i", "x">>,
      <<"a", "d", "d">>,
      <<"r", "e", "m", "o", "v", "e">>,
      <<"u", "p", "d", "a", "t", "e">>,
      <<"c", "h", "a", "n", "g", "e">>,
      <<"c", "r", "e", "a", "t", "e">>,
      <<"w", "h", "e", "r", "e">>,
      <<"w", "h", "a", "t">>,
      <<"w", "h", "e", "n">>,
      <<"w", "h", "y">>,
      <<"h", "o", "w">>,
      <<"w", "h", "o">>,
      <<"w", "h", "i", "c", "h">>,
      <<"l", "o", "c", "a", "t">>,
      <<"f", "i", "n", "d">>,
      <<"s", "h", "o", "w">> }

IsSpace(c) == c = " "

\* String.prototype.split on a separator class: the pieces between maximal
\* runs of separators, an empty piece at either end included.
RECURSIVE SplitRuns(_, _, _, _)
SplitRuns(s, IsSep(_), current, inRun) ==
    IF Len(s) = 0 THEN <<current>>
    ELSE IF IsSep(Head(s))
         THEN IF inRun THEN SplitRuns(Tail(s), IsSep, current, TRUE)
              ELSE <<current>> \o SplitRuns(Tail(s), IsSep, <<>>, TRUE)
         ELSE SplitRuns(Tail(s), IsSep, Append(current, Head(s)), FALSE)

\* normalizedPrompt.split(/\s+/)
SplitWords(s) == SplitRuns(s, IsSpace, <<>>, FALSE)

\* pattern.test(word), case-insensitive, on a lower-case word.
PatternTest(cat, word) == \E alt \in INTENT_PATTERNS(cat) : Includes(word, alt)

\* matchCount of a category.
MatchCount(cat, words) == Cardinality({i \in 1..Len(words) : PatternTest(cat, words[i])})

\* The categories with a match, in insertion order of the Map.
MatchedCategories(words) ==
    SelectSeq(IntentCategories, LAMBDA cat : MatchCount(cat, words) > 0)

\* The first category with the highest count; general when none matched.
RECURSIVE BestCategory(_, _, _, _)
BestCategory(cats, words, bestCategory, bestScore) ==
    IF Len(cats) = 0 THEN [category |-> bestCategory, score |-> bestScore]
    ELSE IF MatchCount(Head(cats), words) > bestScore
         THEN BestCategory(Tail(cats), words, Head(cats), MatchCount(Head(cats), words))
         ELSE BestCategory(Tail(cats), words, bestCategory, bestScore)

\* Confidence is kept in ten-thousandths.
ConfidenceScale == 10000

BaseConfidence(bestScore) ==
    IF bestScore >= 3 THEN 9500 ELSE IF bestScore >= 2 THEN 8500 ELSE 7500

\* IntentAnalyzer.calculateConfidence
calculateConfidence(bestScore, totalCategories) ==
    IF bestScore = 0 THEN 0
    ELSE IF totalCategories > 2 THEN (BaseConfidence(bestScore) * 70) \div 100
    ELSE IF totalCategories > 1 THEN (BaseConfidence(bestScore) * 85) \div 100
    ELSE BaseConfidence(bestScore)

\* A word boundary follows position j of s.
BoundaryAfter(s, j) == ~IsWordAt(s, j + 1)

SuffixAt(s, i, suffix) ==
    MatchAt(s, suffix, i) /\ BoundaryAfter(s, i + Len(suffix) - 1)

\* Length of the match of /ing\b|ed\b|s\b|es\b/ at position i, 0 when none.
StemMatch(s, i) ==
    IF SuffixAt(s, i, <<"i", "n", "g">>) THEN 3
    ELSE IF SuffixAt(s, i, <<"e", "d">>) THEN 2
    ELSE IF SuffixAt(s, i, <<"s">>) THEN 1
    ELSE IF SuffixAt(s, i, <<"e", "s">>) THEN 2
    ELSE 0

\* replace(/ing\b|ed\b|s\b|es\b/g, '')
RECURSIVE StemFrom(_, _)
StemFrom(s, i) ==
    IF i > Len(s) THEN <<>>
    ELSE IF StemMatch(s, i) > 0 THEN StemFrom(s, i + StemMatch(s, i))
    ELSE <<s[i]>> \o StemFrom(s, i + 1)

IsTokenSeparator(c) ==
    ~(c = "-" \/ c = "2" \/ \E i \in 1..Len(LowerChars) : LowerChars[i] = c)

\* split(/[^a-z0-9-]+/).filter(token => token.length > 2)
Tokens(prompt) ==
    SelectSeq(SplitRuns(StemFrom(ToLower(prompt), 1), IsTokenSeparator, <<>>, FALSE),
              LAMBDA token : Len(token) > 2)

\* Appends the tokens that are no stop words and not yet among the keywords.
RECURSIVE AddTokens(_, _)
AddTokens(kws, tokens) ==
    IF Len(tokens) = 0 THEN kws
    ELSE IF Head(tokens) \notin STOP_WORDS /\ Head(tokens) \notin Range(kws)
         THEN AddTokens(Append(kws, Head(tokens)), Tail(tokens))
         ELSE AddTokens(kws, Tail(tokens))

\* IntentAnalyzer.extractKeywords on the lower-case prompt.  The file-name
\* pattern needs a hyphen to match lower-case text; the prompts of the model
\* hold none, so the keywords start empty.
extractKeywords(normalizedPrompt) == AddTokens(<<>>, Tokens(normalizedPrompt))

AnalysisOf(prompt, words, best) ==
    [prompt |-> prompt,
     category |-> best.category,
     keywords |-> extractKeywords(ToLower(prompt)),
     confidence |-> calculateConfidence(best.score, Len(MatchedCategories(words)))]

AnalyzeWords(prompt, words) ==
    AnalysisOf(prompt, words, BestCategory(IntentCategories, words, "general", 0))

\* IntentAnalyzer.analyze
analyze(prompt) == AnalyzeWords(prompt, SplitWords(ToLower(prompt)))

(***************************************************************************)
(* NativeLoader: file enumeration and ignore filtering                     *)
(***************************************************************************)

\* IGNORE_PATTERNS of the scanner.
IGNORE_PATTERNS ==
    << <<"*", "*", "/", "n", "o", "d", "e", "_", "m", "o", "d", "u", "l", "e", "s", "/", "*", "*">>,
       <<"*", "*", "/", ".", "g", "i", "t", "/", "*", "*">>,
       <<"*", "*", "/", ".", "n", "e", "x", "t", "/", "*", "*">>,
       <<"*", "*", "/", "d", "i", "s", "t", "/", "*", "*">>,
       <<"*", "*", "/", "b", "u", "i", "l", "d", "/", "*", "*">>,
       <<"*", "*", "/", ".", "D", "S", "_", "S", "t", "o", "r", "e">>,
       <<"*", "*", "/", "*", ".", "l", "o", "c", "k">>,
       <<"*", "*", "/", "*", ".", "l", "o", "g">>,
       <<"*", "*", "/", "L", "i", "b", "r", "a", "r", "y", "/", "*", "*">>,
       <<"*", "*", "/", "M", "u", "s", "i", "c", "/", "*", "*">>,
       <<"*", "*", "/", "P", "i", "c", "t", "u", "r", "e", "s", "/", "*", "*">>,
       <<"*", "*", "/", "M", "o", "v", "i", "e", "s", "/", "*", "*">>,
       <<"*", "*", "/", "D", "e", "s", "k", "t", "o", "p", "/", "*", "*">>,
       <<"*", "*", "/", "D", "o", "c", "u", "m", "e", "n", "t", "s", "/", "*", "*">>,
       <<"*", "*", "/", ".", "m", "a", "n", "t", "i", "c", "/", "*", "*">>,
       <<"*", "*", "/", ".", "p", "r", "o", "m", "p", "t", "p", "r", "o", "/", "*", "*">>,
       <<"*", "*", "/", "v", "e", "n", "v", "/", "*", "*">>,
       <<"*", "*", "/", ".", "v", "e", "n", "v", "/", "*", "*">>,
       <<"*", "*", "/", "_", "_", "p", "y", "c", "a", "c", "h", "e", "_", "_", "/", "*", "*">>,
       <<"*", "*", "/", "*", ".", "p", "y", "c">>,
       <<"*", "*", "/", "*", ".", "e", "g", "g", "-", "i", "n", "f", "o", "/", "*", "*">>,
       <<"*", "*", "/", "t", "a", "r", "g", "e", "t", "/", "*", "*">>,
       <<"*", "*", "/", ".", "c", "a", "r", "g", "o", "/", "*", "*">>,
       <<"*", "*", "/", "v", "e", "n", "d", "o", "r", "/", "*", "*">>,
       <<"*", "*", "/", "t", "m", "p", "/", "*", "*">>,
       <<"*", "*", "/", "t", "e", "m", "p", "/", "*", "*">>,
       <<"*", "*", "/", "c", "o", "v", "e", "r", "a", "g", "e", "/", "*", "*">>,
       <<"*", "*", "/", ".", "i", "d", "e", "a", "/", "*", "*">>,
       <<"*", "*", "/", ".", "v", "s", "c", "o", "d", "e", "/", "*", "*">>,
       <<"*", "*", "/", "*", ".", "m", "i", "n", ".", "j", "s">>,
       <<"*", "*", "/", "*", ".", "m", "i", "n", ".", "c", "s", "s">>,
       <<"*", "*", "/", "*", ".", "m", "a", "p">> >>

\* String.prototype.split(',')
RECURSIVE SplitComma(_, _)
SplitComma(s, current) ==
    IF Len(s) = 0 THEN <<current>>
    ELSE IF Head(s) = "," THEN <<current>> \o SplitComma(Tail(s), <<>>)
    ELSE SplitComma(Tail(s), Append(current, Head(s)))

\* String.prototype.trim
RECURSIVE TrimStart(_)
TrimStart(s) == IF Len(s) > 0 /\ Head(s) = " " THEN TrimStart(Tail(s)) ELSE s

RECURSIVE TrimEnd(_)
TrimEnd(s) ==
    IF Len(s) > 0 /\ s[Len(s)] = " " THEN TrimEnd(Slice(s, 1, Len(s) - 1)) ELSE s

Trim(s) == TrimEnd(TrimStart(s))

TrimAll(parts) == [i \in 1..Len(parts) |-> Trim(parts[i])]

\* getIgnorePatterns(); envPatterns is MANTIC_IGNORE_PATTERNS, empty when unset.
getIgnorePatterns(envPatterns) ==
    IF Len(envPatterns) = 0 THEN IGNORE_PATTERNS
    ELSE IGNORE_PATTERNS
         \o SelectSeq(TrimAll(SplitComma(envPatterns, <<>>)), LAMBDA p : Len(p) > 0)

GlobStarSlash == <<"*", "*", "/">>

GlobStar == <<"*", "*">>

SlashGlobStar == <<"/", "*", "*">>

\* The constructor's split: patterns that end in "/**" or "/" become prefixes.
IsPrefixPattern(p) == EndsWith(p, SlashGlobStar) \/ EndsWith(p, <<"/">>)

PrefixOf(p) ==
    IF EndsWith(p, SlashGlobStar) THEN Slice(p, 1, Len(p) - 3) \o <<"/">> ELSE p

ignorePrefixes(patterns) ==
    { PrefixOf(patterns[i]) : i \in {k \in 1..Len(patterns) : IsPrefixPattern(patterns[k])} }

complexPatterns(patterns) ==
    { patterns[i] : i \in {k \in 1..Len(patterns) : ~IsPrefixPattern(patterns[k])} }

\* String.prototype.replace with a global pattern: every occurrence of pat,
\* left to right, becomes the token tok.
RECURSIVE ReplaceAll(_, _, _)
ReplaceAll(s, pat, tok) ==
    IF Len(s) = 0 THEN <<>>
    ELSE IF StartsWith(s, pat)
         THEN <<tok>> \o ReplaceAll(Slice(s, Len(pat) + 1, Len(s)), pat, tok)
         ELSE <<Head(s)>> \o ReplaceAll(Tail(s), pat, tok)

\* compilePatterns for one pattern: the regular expression as a sequence of
\* tokens, a literal character or one of the four wildcards.
compilePattern(p) ==
    ReplaceAll(ReplaceAll(ReplaceAll(ReplaceAll(p, GlobStarSlash, "GLOBSTARSLASH"),
                                     GlobStar, "GLOBSTAR"),
                          <<"*">>, "STAR"),
               <<"?">>, "QUESTION")

\* RegExp.prototype.test of ^tokens$ on s.
RECURSIVE RegexTest(_, _)
RegexTest(toks, s) ==
    IF Len(toks) = 0 THEN Len(s) = 0
    ELSE IF Head(toks) = "GLOBSTARSLASH"
    THEN \/ RegexTest(Tail(toks), s)
         \/ \E k \in 1..Len(s) :
               s[k] = "/" /\ RegexTest(Tail(toks), Slice(s, k + 1, Len(s)))
    ELSE IF Head(toks) = "GLOBSTAR"
    THEN \E k \in 0..Len(s) : RegexTest(Tail(toks), Slice(s, k + 1, Len(s)))
    ELSE IF Head(toks) = "STAR"
    THEN \E k \in 0..Len(s) :
            /\ \A j \in 1..k : s[j] # "/"
            /\ RegexTest(Tail(toks), Slice(s, k + 1, Len(s)))
    ELSE IF Head(toks) = "QUESTION"
    THEN Len(s) > 0 /\ RegexTest(Tail(toks), Tail(s))
    ELSE Len(s) > 0 /\ Head(s) = Head(toks) /\ RegexTest(Tail(toks), Tail(s))

\* The predicate of filterFiles.
KeptByFilter(file, prefixes, complex) ==
    /\ \A prefix \in prefixes : ~StartsWith(file, prefix)
    /\ \A p \in complex : ~RegexTest(compilePattern(p), file)

\* NativeLoader.filterFiles
filterFiles(fs, patterns) ==
    IF Len(patterns) = 0 THEN fs
    ELSE SelectSeq(fs, LAMBDA f :
                          KeptByFilter(f, ignorePrefixes(patterns), complexPatterns(patterns)))

\* A path matches a glob pattern of the ignore list.
GlobMatches(p, file) == RegexTest(compilePattern(p), file)

\* fast-glob over the worktree with ignore: ignorePatterns.
GlobWalk(fs, patterns) ==
    SelectSeq(fs, LAMBDA f : \A i \in 1..Len(patterns) : ~GlobMatches(patterns[i], f))

\* spawnSync's results: the list on stdout, a spawn error (no stdout), or a
\* non-zero exit status with nothing on stdout.
ProcessOutcomes == {"ok", "spawnError", "exitNonZero"}

\* fast-glob's results.
GlobOutcomes == {"ok", "throwsEPERM", "throws"}

Stdout(outcome, fs) == IF outcome = "ok" THEN fs ELSE <<>>

\* loadFromGit: the list, or "Git failed" thrown.
loadFromGit(e) ==
    IF e.git = "spawnError" THEN [threw |-> TRUE, out |-> <<>>]
    ELSE [threw |-> FALSE,
          out |-> Stdout(e.git, e.tracked)
                  \o (IF e.untrackedOk THEN Stdout(e.git, e.untracked) ELSE <<>>)]

\* loadFromFd: the list, or "fd failed" thrown.
loadFromFd(e) ==
    IF e.fd = "spawnError" THEN [threw |-> TRUE, out |-> <<>>]
    ELSE [threw |-> FALSE, out |-> Stdout(e.fd, e.tracked \o e.untracked)]

\* loadFromGlob catches every error and returns the empty list.
loadFromGlob(e, patterns) ==
    IF e.glob = "ok" THEN GlobWalk(e.tracked \o e.untracked, patterns) ELSE <<>>

LoadedBy(strategy, fs) == [called |-> TRUE, strategy |-> strategy, out |-> fs]

LoadViaGlob(e, patterns) == LoadedBy("glob", loadFromGlob(e, patterns))

LoadViaFd(e, patterns) ==
    IF e.fdAvailable /\ ~loadFromFd(e).threw
    THEN LoadedBy("fd", filterFiles(loadFromFd(e).out, patterns))
    ELSE LoadViaGlob(e, patterns)

\* NativeLoader.loadFiles
loadFiles(e, patterns) ==
    IF e.isGit /\ ~loadFromGit(e).threw
    THEN LoadedBy("git", filterFiles(loadFromGit(e).out, patterns))
    ELSE LoadViaFd(e, patterns)

PathSrcA == <<"s", "r", "c", "/", "a", ".", "t", "s">>
PathVendor == <<"v", "e", "n", "d", "o", "r", "/", "x", ".", "g", "o">>
PathNestedModule == <<"p", "k", "g", "/", "n", "o", "d", "e", "_", "m", "o", "d", "u", "l", "e", "s", "/", "m", ".", "j", "s">>
PathLock == <<"y", "a", "r", "n", ".", "l", "o", "c", "k">>
PathSecret == <<"s", "e", "c", "r", "e", "t", "/", "k", ".", "t", "s">>
PathScratch == <<"n", "o", "t", "e", "s", ".", "t", "m", "p">>

\* What git tracks in the worktree, and what is untracked and not ignored.
TrackedLists == {<<>>, <<PathSrcA>>, <<PathNestedModule, PathSrcA, PathVendor, PathLock>>}

UntrackedLists == {<<>>, <<PathScratch, PathSecret>>}

\* Values of MANTIC_IGNORE_PATTERNS: unset, and "secret/**, *.tmp".
IgnoreEnvValues == {<<>>, <<"s", "e", "c", "r", "e", "t", "/", "*", "*", ",", " ", "*", ".", "t", "m", "p">>}

NotLoaded == [called |-> FALSE, strategy |-> "none", out |-> <<>>]

LoaderIdleEnv ==
    [isGit |-> FALSE, git |-> "ok", untrackedOk |-> TRUE, fdAvailable |-> FALSE,
     fd |-> "ok", glob |-> "ok", tracked |-> <<>>, untracked |-> <<>>,
     ignoreEnv |-> <<>>]

(***************************************************************************)
(* Canonical analyzer: implementation files and their tests and documents  *)
(***************************************************************************)

\* Extensions after which .test. / .spec. / .e2e. are removed by getBaseName.
SuffixExtensions == {<<".", "t", "s">>, <<".", "t", "s", "x">>, <<".", "j", "s">>, <<".", "j", "s", "x">>, <<".", "m", "j", "s">>}

\* Extensions after which .stories. is removed by getBaseName.
StoriesExtensions == {<<".", "t", "s">>, <<".", "t", "s", "x">>, <<".", "j", "s">>, <<".", "j", "s", "x">>}

\* filename.replace(/\.marker\.(exts)$/, '.$1'); marker carries its leading dot.
StripMarker(filename, marker, exts) ==
    IF \E e \in exts : EndsWith(filename, marker \o e)
    THEN LET e == CHOOSE x \in exts : EndsWith(filename, marker \o x)
         IN  Slice(filename, 1, Len(filename) - Len(marker) - Len(e)) \o e
    ELSE filename

\* filename.replace(/\.md$/, '')
StripMd(filename) ==
    IF EndsWith(filename, <<".", "m", "d">>) THEN Slice(filename, 1, Len(filename) - 3)
    ELSE filename

\* filename.replace(/\.[^.]+$/, ''): the last dot and what follows it, when
\* something follows it.
StripLastExtension(filename) ==
    IF LastIndexOf(filename, ".") \in 1..(Len(filename) - 1)
    THEN Slice(filename, 1, LastIndexOf(filename, ".") - 1)
    ELSE filename

\* getBaseName
getBaseName(filepath) ==
    StripLastExtension(
      StripMd(
        StripMarker(
          StripMarker(
            StripMarker(
              StripMarker(Basename(filepath), <<".", "t", "e", "s", "t">>, SuffixExtensions),
              <<".", "s", "p", "e", "c">>, SuffixExtensions),
            <<".", "e", "2", "e">>, SuffixExtensions),
          <<".", "s", "t", "o", "r", "i", "e", "s">>, StoriesExtensions)))

\* Directory names findCanonicalPaths prefers.
implDirs == {<<"s", "r", "c">>, <<"l", "i", "b">>, <<"a", "p", "p">>, <<"p", "a", "c", "k", "a", "g", "e", "s">>, <<"c", "o", "m", "p", "o", "n", "e", "n", "t", "s">>}

IsSlash(c) == c = "/"

\* a.split('/')
SplitPath(p) == SplitRuns(p, IsSlash, <<>>, FALSE)

InImplDir(p) == \E i \in 1..Len(SplitPath(p)) : SplitPath(p)[i] \in implDirs

\* The comparator findCanonicalPaths sorts its candidates with.
CanonicalCompare(a, b) ==
    IF InImplDir(a) /\ ~InImplDir(b) THEN -1
    ELSE IF ~InImplDir(a) /\ InImplDir(b) THEN 1
    ELSE Len(SplitPath(a)) - Len(SplitPath(b))

RECURSIVE InsertCandidate(_, _)
InsertCandidate(sorted, c) ==
    IF Len(sorted) = 0 THEN <<c>>
    ELSE IF CanonicalCompare(sorted[Len(sorted)], c) <= 0 THEN Append(sorted, c)
    ELSE Append(InsertCandidate(Slice(sorted, 1, Len(sorted) - 1), c),
                sorted[Len(sorted)])

RECURSIVE SortCandidates(_)
SortCandidates(cs) ==
    IF Len(cs) = 0 THEN <<>>
    ELSE InsertCandidate(SortCandidates(Slice(cs, 1, Len(cs) - 1)), cs[Len(cs)])

\* findCanonicalPaths
findCanonicalPaths(filepath, allFiles) ==
    IF isCanonical(filepath) THEN <<filepath>>
    ELSE SortCandidates(
           SelectSeq(allFiles,
                     LAMBDA f : isCanonical(f) /\ getBaseName(f) = getBaseName(filepath)))

CanonicalWarning(type, derivative, canonical) ==
    [type |-> type, derivativeFile |-> derivative, canonicalFile |-> canonical,
     entity |-> <<>>, suggestions |-> <<>>]

\* The warnings of one group of result files with the same base name.
GroupWarnings(canonicalFiles, testFiles, docFiles, allFiles) ==
    (IF Len(canonicalFiles) > 0
     THEN [i \in 1..Len(testFiles) |->
             CanonicalWarning("duplicate_test", testFiles[i].path, canonicalFiles[1].path)]
          \o [i \in 1..Len(docFiles) |->
             CanonicalWarning("duplicate_docs", docFiles[i].path, canonicalFiles[1].path)]
     ELSE <<>>)
    \o
    (IF Len(canonicalFiles) = 0 /\ Len(testFiles \o docFiles) > 0
        /\ Len(findCanonicalPaths((testFiles \o docFiles)[1].path, allFiles)) > 0
     THEN << CanonicalWarning("prefer_canonical", (testFiles \o docFiles)[1].path,
                              findCanonicalPaths((testFiles \o docFiles)[1].path,
                                                 allFiles)[1]) >>
     ELSE <<>>)

GroupOf(scored, baseName) ==
    SelectSeq(scored, LAMBDA f : getBaseName(f.path) = baseName)

WarningsOfGroup(group, allFiles) ==
    IF Len(group) < 2 THEN <<>>
    ELSE GroupWarnings(
           SelectSeq(group, LAMBDA f : isCanonical(f.path)),
           SelectSeq(group, LAMBDA f : ~isCanonical(f.path) /\ classifyFile(f.path) = "test"),
           SelectSeq(group, LAMBDA f : ~isCanonical(f.path) /\ classifyFile(f.path) = "docs"),
           allFiles)

RECURSIVE WarningsOfGroups(_, _, _)
WarningsOfGroups(scored, baseNames, allFiles) ==
    IF Len(baseNames) = 0 THEN <<>>
    ELSE WarningsOfGroup(GroupOf(scored, Head(baseNames)), allFiles)
         \o WarningsOfGroups(scored, Tail(baseNames), allFiles)

\* analyzeCanonicalDuplicates: the warnings, group by group in the order in
\* which the base names first occur in the result.
analyzeCanonicalDuplicates(scored, allFiles) ==
    WarningsOfGroups(scored,
                     Dedup([i \in 1..Len(scored) |-> getBaseName(scored[i].path)]),
                     allFiles)

(***************************************************************************)
(* Entity extraction and validation                                        *)
(***************************************************************************)

\* array.slice(0, n)
Take(s, n) == Slice(s, 1, Min(Len(s), n))

IsNonWordChar(c) == ~IsWordChar(c)

\* The maximal runs of word characters of a query: what a pattern that starts
\* and ends with \b and holds only word characters can match.
WordRuns(query) ==
    SelectSeq(SplitRuns(query, IsNonWordChar, <<>>, FALSE), LAMBDA w : Len(w) > 0)

IsLower(c) == IsLetter(c) /\ ~IsUpper(c)

UpperCount(w) == Cardinality({i \in 1..Len(w) : IsUpper(w[i])})

\* /\b([A-Z][a-z]+(?:[A-Z][a-z]+)+)\b/ on a run of word characters
IsPascalCase(w) ==
    /\ Len(w) > 0
    /\ IsUpper(w[1])
    /\ \A i \in 1..Len(w) : IsLetter(w[i])
    /\ \A i \in 1..Len(w) : IsUpper(w[i]) => i < Len(w) /\ IsLower(w[i + 1])
    /\ UpperCount(w) >= 2

\* /\b([a-z][a-z0-9]*(?:[A-Z][a-z0-9]+)+)\b/ on a run of word characters
IsCamelCase(w) ==
    /\ Len(w) > 0
    /\ IsLower(w[1])
    /\ \A i \in 1..Len(w) : w[i] # "_"
    /\ \A i \in 1..Len(w) : IsUpper(w[i]) => i < Len(w) /\ ~IsUpper(w[i + 1])
    /\ UpperCount(w) >= 1

\* The prefixes and suffixes that make a PascalCase name a component.
ComponentAffixes ==
    {<<"B", "u", "t", "t", "o", "n">>, <<"F", "o", "r", "m">>, <<"M", "o", "d", "a", "l">>, <<"C", "a", "r", "d">>, <<"H", "e", "a", "d", "e", "r">>, <<"F", "o", "o", "t", "e", "r">>, <<"L", "a", "y", "o", "u", "t">>,
     <<"P", "a", "g", "e">>, <<"V", "i", "e", "w">>, <<"P", "a", "n", "e", "l">>, <<"M", "e", "n", "u">>, <<"L", "i", "s", "t">>, <<"I", "t", "e", "m">>, <<"I", "n", "p", "u", "t">>,
     <<"S", "e", "l", "e", "c", "t">>, <<"T", "a", "b", "l", "e">>, <<"R", "o", "w">>, <<"C", "e", "l", "l">>}

IsComponentName(name) ==
    \E a \in ComponentAffixes : StartsWith(name, a) \/ EndsWith(name, a)

\* camelCase names the extractor does not take for functions.
CommonCamelWords ==
    {<<"t", "y", "p", "e", "E", "r", "r", "o", "r">>, <<"u", "s", "e", "S", "t", "a", "t", "e">>, <<"u", "s", "e", "E", "f", "f", "e", "c", "t">>, <<"o", "n", "C", "l", "i", "c", "k">>, <<"o", "n", "C", "h", "a", "n", "g", "e">>}

\* Extensions of the file pattern, matched case-insensitively.
FileReferenceExtensions ==
    {<<"t", "s">>, <<"t", "s", "x">>, <<"j", "s">>, <<"j", "s", "x">>, <<"p", "y">>, <<"g", "o">>, <<"r", "s">>, <<"j", "a", "v", "a">>, <<"r", "b">>, <<"p", "h", "p">>,
     <<"v", "u", "e">>, <<"s", "v", "e", "l", "t", "e">>}

\* The file pattern on a word of the query.  The queries of the model hold a
\* dot only in words of the form name.ext with a name of word characters.
IsFileReference(word) ==
    /\ LastIndexOf(word, ".") > 1
    /\ \A i \in 1..(LastIndexOf(word, ".") - 1) : IsWordChar(word[i]) \/ word[i] = "-"
    /\ ToLower(Slice(word, LastIndexOf(word, ".") + 1, Len(word)))
          \in FileReferenceExtensions

\* extractEntities.  Error names are extracted by the program as well; they
\* are counted and validated nowhere.  The queries of the model hold no
\* quote characters, so the quoted-string step adds nothing.
extractEntities(query) ==
    [files |-> Dedup(SelectSeq(SplitWords(query), IsFileReference)),
     functions |-> Dedup(SelectSeq(WordRuns(query),
                           LAMBDA w : IsCamelCase(w) /\ w \notin CommonCamelWords)),
     classes |-> Dedup(SelectSeq(WordRuns(query),
                           LAMBDA w : IsPascalCase(w) /\ ~IsComponentName(w))),
     components |-> Dedup(SelectSeq(WordRuns(query),
                           LAMBDA w : IsPascalCase(w) /\ IsComponentName(w)))]

\* One row of the Levenshtein matrix from the row above it.
RECURSIVE FillRow(_, _, _, _)
FillRow(row, prev, c, s1) ==
    IF Len(row) = Len(s1) + 1 THEN row
    ELSE FillRow(Append(row,
                        IF c = s1[Len(row)] THEN prev[Len(row)]
                        ELSE 1 + Min(prev[Len(row)],
                                     Min(row[Len(row)], prev[Len(row) + 1]))),
                 prev, c, s1)

RECURSIVE LevRows(_, _, _)
LevRows(prev, rest, s1) ==
    IF Len(rest) = 0 THEN prev
    ELSE LevRows(FillRow(<<prev[1] + 1>>, prev, Head(rest), s1), Tail(rest), s1)

Levenshtein(s1, s2) ==
    LevRows([j \in 1..(Len(s1) + 1) |-> j - 1], s2, s1)[Len(s1) + 1]

\* fuzzyMatch on lower-case strings; the similarity is the fraction num/den.
FuzzyLower(s1, s2) ==
    IF s1 = s2 THEN [num |-> 1, den |-> 1]
    ELSE IF Includes(s1, s2) \/ Includes(s2, s1) THEN [num |-> 9, den |-> 10]
    ELSE [num |-> Max(Len(s1), Len(s2)) - Levenshtein(s1, s2),
          den |-> Max(Len(s1), Len(s2))]

\* fuzzyMatch
fuzzyMatch(str1, str2) == FuzzyLower(ToLower(str1), ToLower(str2))

\* a >= b for fractions with positive denominators
AtLeast(a, b) == a.num * b.den >= b.num * a.den

RECURSIVE InsertBySimilarity(_, _)
InsertBySimilarity(sorted, x) ==
    IF Len(sorted) = 0 THEN <<x>>
    ELSE IF AtLeast(sorted[Len(sorted)].similarity, x.similarity) THEN Append(sorted, x)
    ELSE Append(InsertBySimilarity(Slice(sorted, 1, Len(sorted) - 1), x),
                sorted[Len(sorted)])

RECURSIVE SortBySimilarity(_)
SortBySimilarity(xs) ==
    IF Len(xs) = 0 THEN <<>>
    ELSE InsertBySimilarity(SortBySimilarity(Slice(xs, 1, Len(xs) - 1)), xs[Len(xs)])

\* findClosestMatches: the candidates at least as similar as the threshold,
\* most similar first, at most maxResults of them.
findClosestMatches(target, names, threshold, maxResults) ==
    Take(SortBySimilarity(
           SelectSeq([i \in 1..Len(names) |->
                         [match |-> names[i],
                          similarity |-> fuzzyMatch(target, names[i])]],
                     LAMBDA r : AtLeast(r.similarity, threshold))),
         maxResults)

MatchesOf(results) == [i \in 1..Len(results) |-> results[i].match]

ValidationWarning(type, entity, suggestions) ==
    [type |-> type, derivativeFile |-> <<>>, canonicalFile |-> <<>>,
     entity |-> entity, suggestions |-> suggestions]

\* name === entity || name.toLowerCase() === entity.toLowerCase()
SameName(name, entity) == name = entity \/ ToLower(name) = ToLower(entity)

IsKnown(entity, known) == \E i \in 1..Len(known) : SameName(known[i], entity)

Basenames(allFiles) == [i \in 1..Len(allFiles) |-> Basename(allFiles[i])]

\* Step 1 of validateEntities: a warning for every file reference that no
\* basename of the repository equals, with or without suggestions.
RECURSIVE FileWarnings(_, _)
FileWarnings(fileRefs, allFiles) ==
    IF Len(fileRefs) = 0 THEN <<>>
    ELSE (IF IsKnown(Head(fileRefs), Basenames(allFiles)) THEN <<>>
          ELSE << ValidationWarning("file_not_found", Head(fileRefs),
                     MatchesOf(findClosestMatches(Head(fileRefs), Basenames(allFiles),
                                                  [num |-> 6, den |-> 10], 3))) >>)
         \o FileWarnings(Tail(fileRefs), allFiles)

\* Steps 2-4 of validateEntities for one kind of name: a warning for every
\* name the index does not know, when the index knows a similar one.
RECURSIVE NameWarnings(_, _, _)
NameWarnings(type, names, known) ==
    IF Len(names) = 0 THEN <<>>
    ELSE (IF \/ IsKnown(Head(names), known)
             \/ Len(known) = 0
             \/ Len(findClosestMatches(Head(names), known, [num |-> 7, den |-> 10], 3)) = 0
          THEN <<>>
          ELSE << ValidationWarning(type, Head(names),
                     MatchesOf(findClosestMatches(Head(names), known,
                                                  [num |-> 7, den |-> 10], 3))) >>)
         \o NameWarnings(type, Tail(names), known)

FoundAmong(names, known) == SelectSeq(names, LAMBDA n : IsKnown(n, known))

\* The cache argument of validateEntities when it is null.
NullCache == [isNull |-> TRUE, functions |-> <<>>, classes |-> <<>>, components |-> <<>>]

\* validateEntities; the names of the cache are those of all its files.
validateEntities(entities, allFiles, cache) ==
    [warnings |->
        FileWarnings(entities.files, allFiles)
        \o (IF cache.isNull THEN <<>>
            ELSE NameWarnings("function_not_found", entities.functions, cache.functions)
                 \o NameWarnings("class_not_found", entities.classes, cache.classes)
                 \o NameWarnings("component_not_found", entities.components,
                                 cache.components)),
     foundCount |->
        Len(FoundAmong(entities.files, Basenames(allFiles)))
        + (IF cache.isNull THEN 0
           ELSE Len(FoundAmong(entities.functions, cache.functions))
                + Len(FoundAmong(entities.classes, cache.classes))
                + Len(FoundAmong(entities.components, cache.components)))]

(***************************************************************************)
(* processRequest: one request from the prompt to the result record        *)
(***************************************************************************)

\* Values of the MANTIC_MAX_FILES environment variable: unset, not a number,
\* zero, and positive numbers.
MaxFilesEnvValues ==
    { [set |-> FALSE, isNaN |-> FALSE, parsed |-> 0],
      [set |-> TRUE, isNaN |-> TRUE, parsed |-> 0],
      [set |-> TRUE, isNaN |-> FALSE, parsed |-> 0],
      [set |-> TRUE, isNaN |-> FALSE, parsed |-> 1],
      [set |-> TRUE, isNaN |-> FALSE, parsed |-> 2] }

DefaultMaxFiles == 300

\* getMaxFiles()
getMaxFiles(e) ==
    IF e.set /\ ~e.isNaN /\ e.parsed > 0 THEN e.parsed ELSE DefaultMaxFiles

PathsOfScored(scored) == [i \in 1..Len(scored) |-> scored[i].path]

\* The scoring branches of scanProjectLegacyInternal, which rank the files.
ScanScored(scoredFiles, e) ==
    [fileStructure |-> PathsOfScored(scoredFiles),
     scoredFiles |-> Take(scoredFiles, getMaxFiles(e))]

\* scanProjectLegacyInternal on the loader's file list.  An undefined
\* scoredFiles is the empty list: processRequest reads both as "no scores".
scanProjectLegacyInternal(loadedFiles, intentAnalysis, skipScoring, e) ==
    IF Len(intentAnalysis.keywords) > 0 /\ ~skipScoring
    THEN ScanScored(rankFiles(loadedFiles, intentAnalysis.keywords,
                              intentAnalysis.category, NoBoosts), e)
    ELSE [fileStructure |->
             IF 2 * intentAnalysis.confidence > ConfidenceScale \/ skipScoring
             THEN loadedFiles
             ELSE Take(loadedFiles, getMaxFiles(e)),
          scoredFiles |-> <<>>]

\* scoredFilesFn of processRequest: the scanner's scores when it has some,
\* else the ranking of a fresh engine.
RawResults(projectContext, intentAnalysis) ==
    IF Len(projectContext.scoredFiles) > 0 THEN projectContext.scoredFiles
    ELSE rankFiles(projectContext.fileStructure, intentAnalysis.keywords,
                   intentAnalysis.category, EngineBoosts)

\* The --code / --config / --test filter and the default exclusion of
\* generated files.
ApplyContextFilters(scored, filter) ==
    SelectSeq(SelectSeq(scored,
                        LAMBDA f : filter = "none" \/ classifyFile(f.path) = filter),
              LAMBDA f : classifyFile(f.path) # "generated")

EntityCount(entities) ==
    Len(entities.files) + Len(entities.functions) + Len(entities.classes)
    + Len(entities.components)

\* The validation summary of the result; absent when the query names nothing.
ValidationSummary(entities, validation) ==
    [present |-> EntityCount(entities) > 0,
     isValid |-> Len(validation.warnings) = 0,
     entityCount |-> EntityCount(entities),
     foundCount |-> validation.foundCount]

\* buildContextResult with its warnings and its validation summary; an
\* undefined warnings field is the empty list.
ContextResult(query, intentAnalysis, scored, fileStructure) ==
    [query |-> query,
     intent |-> [category |-> intentAnalysis.category,
                 confidence |-> intentAnalysis.confidence,
                 keywords |-> intentAnalysis.keywords],
     files |-> [i \in 1..Len(scored) |->
                  [path |-> scored[i].path,
                   relevanceScore |-> scored[i].score,
                   matchReasons |-> scored[i].reasons]],
     totalScanned |-> Len(fileStructure),
     filesReturned |-> Len(scored),
     warnings |-> analyzeCanonicalDuplicates(scored, fileStructure)
                  \o validateEntities(extractEntities(query), fileStructure,
                                      NullCache).warnings,
     validation |-> ValidationSummary(extractEntities(query),
                       validateEntities(extractEntities(query), fileStructure,
                                        NullCache))]

ProcessScanned(userPrompt, filter, intentAnalysis, projectContext) ==
    ContextResult(userPrompt, intentAnalysis,
                  ApplyContextFilters(RawResults(projectContext, intentAnalysis), filter),
                  projectContext.fileStructure)

ProcessAnalyzed(userPrompt, filter, e, loadedFiles, intentAnalysis) ==
    ProcessScanned(userPrompt, filter, intentAnalysis,
                   scanProjectLegacyInternal(loadedFiles, intentAnalysis, TRUE, e))

\* processRequest up to the result record: intent analysis, the scan without
\* semantics and with scoring deferred, ranking, filters, result.
processRequest(userPrompt, filter, e, loadedFiles) ==
    ProcessAnalyzed(userPrompt, filter, e, loadedFiles, analyze(userPrompt))

PromptEmpty == <<>>
PromptLogin == <<"l", "o", "g", "i", "n">>
PromptFixLogin == <<"f", "i", "x", " ", "l", "o", "g", "i", "n">>
PromptButtonXyzzy == <<"B", "u", "t", "t", "o", "n", "X", "y", "z", "z", "y">>
PromptScriptController == <<"S", "c", "r", "i", "p", "t", "C", "o", "n", "t", "r", "o", "l", "l", "e", "r">>
PromptMisspelledFile == <<"B", "u", "t", "o", "n", ".", "t", "s", "x">>

Prompts ==
    {PromptEmpty, PromptLogin, PromptFixLogin, PromptButtonXyzzy,
     PromptScriptController, PromptMisspelledFile}

PathButton == <<"s", "r", "c", "/", "c", "o", "m", "p", "o", "n", "e", "n", "t", "s", "/", "B", "u", "t", "t", "o", "n", ".", "t", "s", "x">>
PathScriptCc == <<"s", "r", "c", "/", "s", "c", "r", "i", "p", "t", "_", "c", "o", "n", "t", "r", "o", "l", "l", "e", "r", ".", "c", "c">>
PathScriptH == <<"s", "r", "c", "/", "s", "c", "r", "i", "p", "t", "_", "c", "o", "n", "t", "r", "o", "l", "l", "e", "r", ".", "h">>

\* The file lists the loader hands to the scan.
Repositories ==
    { <<>>,
      <<PathDocsAuth>>,
      <<PathLogo>>,
      <<PathLogin, PathLoginTest, PathDocsAuth>>,
      <<PathButton, PathLogin>>,
      <<PathScriptCc, PathScriptH>>,
      RepoFiles }

NoResponse ==
    [called |-> FALSE,
     result |-> [query |-> <<>>,
                 intent |-> [category |-> "", confidence |-> 0, keywords |-> <<>>],
                 files |-> <<>>, totalScanned |-> 0, filesReturned |-> 0,
                 warnings |-> <<>>,
                 validation |-> [present |-> FALSE, isValid |-> TRUE,
                                 entityCount |-> 0, foundCount |-> 0]]]

IdleCommand ==
    [prompt |-> PromptEmpty, filter |-> "none",
     maxFiles |-> [set |-> FALSE, isNaN |-> FALSE, parsed |-> 0], repo |-> <<>>]

(***************************************************************************)
(* Impact analyzer: dependents, related tests and blast radius             *)
(***************************************************************************)

\* s.replace(pat, rep) with a string pattern: the first occurrence only.
ReplaceFirst(s, pat, rep) ==
    IF ~Includes(s, pat) THEN s
    ELSE LET i == CHOOSE k \in 1..(Len(s) - Len(pat) + 1) :
                     MatchAt(s, pat, k) /\ \A j \in 1..(k - 1) : ~MatchAt(s, pat, j)
         IN  Slice(s, 1, i - 1) \o rep \o Slice(s, i + Len(pat), Len(s))

\* path.dirname of a relative path
Dirname(p) ==
    IF LastIndexOf(p, "/") = 0 THEN <<".">>
    ELSE Slice(p, 1, LastIndexOf(p, "/") - 1)

\* path.join(dir, rest) for a normalized dir
JoinPath(dir, rest) == IF dir = <<".">> THEN rest ELSE dir \o <<"/">> \o rest

\* testPatterns of findRelatedTests, in order.
TestPatternsOf(filepath, baseName, dir, ext) ==
    << JoinPath(dir, baseName \o <<".", "t", "e", "s", "t">> \o ext),
       JoinPath(dir, baseName \o <<".", "s", "p", "e", "c">> \o ext),
       JoinPath(dir, baseName \o <<".", "e", "2", "e">> \o ext),
       JoinPath(dir, <<"_", "_", "t", "e", "s", "t", "s", "_", "_", "/">> \o baseName \o ext),
       JoinPath(dir, <<"_", "_", "t", "e", "s", "t", "s", "_", "_", "/">> \o baseName \o <<".", "t", "e", "s", "t">> \o ext),
       ReplaceFirst(ReplaceFirst(filepath, <<"/", "s", "r", "c", "/">>, <<"/", "t", "e", "s", "t", "s", "/">>), ext, <<".", "t", "e", "s", "t">> \o ext),
       ReplaceFirst(ReplaceFirst(filepath, <<"/", "l", "i", "b", "/">>, <<"/", "t", "e", "s", "t", "s", "/">>), ext, <<".", "t", "e", "s", "t">> \o ext),
       <<"t", "e", "s", "t", "s", "/">> \o Stem(filepath) \o <<".", "t", "e", "s", "t">> \o ext >>

\* The second loop of findRelatedTests: files with test or spec in the path
\* whose base name is or contains the base name of the file.
NamedLikeTest(file, lowerBaseName) ==
    /\ Includes(file, <<"t", "e", "s", "t">>) \/ Includes(file, <<"s", "p", "e", "c">>)
    /\ Includes(ToLower(getBaseName(file)), lowerBaseName)

RelatedTestsOf(patterns, allFiles, lowerBaseName) ==
    Dedup(SelectSeq(patterns, LAMBDA p : p \in Range(allFiles))
          \o SelectSeq(allFiles, LAMBDA f : NamedLikeTest(f, lowerBaseName)))

\* findRelatedTests
findRelatedTests(filepath, allFiles) ==
    RelatedTestsOf(TestPatternsOf(filepath, getBaseName(filepath), Dirname(filepath),
                                  Extname(filepath)),
                   allFiles, ToLower(getBaseName(filepath)))

\* The radius of calculateBlastRadius for a score.
RadiusOf(score) ==
    IF score < 20 THEN "small"
    ELSE IF score < 50 THEN "medium"
    ELSE IF score < 80 THEN "large"
    ELSE "critical"

\* A score computed without the weight of the related tests.
ImpactScoreWithoutTests(directCount, indirectCount, testCount) ==
    Min(100, directCount * 10 + indirectCount * 3)

\* The weighted sum of calculateBlastRadius, capped at 100.
ImpactScore(directCount, indirectCount, testCount) ==
    Min(100, directCount * 10 + indirectCount * 3 + testCount * 2)

\* calculateBlastRadius
calculateBlastRadius(directCount, indirectCount, testCount) ==
    [radius |-> RadiusOf(ImpactScore(directCount, indirectCount, testCount)),
     score |-> ImpactScore(directCount, indirectCount, testCount)]

\* graph.nodes.get(filepath)?.dependents || []
DependentsOf(graph, filepath) ==
    IF filepath \in DOMAIN graph THEN graph[filepath] ELSE <<>>

\* The inner loop of analyzeImpact for the dependents of one direct dependent.
RECURSIVE AddIndirect(_, _, _, _)
AddIndirect(indirect, deps, direct, filepath) ==
    IF Len(deps) = 0 THEN indirect
    ELSE IF Head(deps) \notin Range(direct) \cup Range(indirect) /\ Head(deps) # filepath
         THEN AddIndirect(Append(indirect, Head(deps)), Tail(deps), direct, filepath)
         ELSE AddIndirect(indirect, Tail(deps), direct, filepath)

\* The outer loop: dependents one level deeper, each once.
RECURSIVE IndirectFrom(_, _, _, _, _)
IndirectFrom(indirect, rest, direct, graph, filepath) ==
    IF Len(rest) = 0 THEN indirect
    ELSE IndirectFrom(AddIndirect(indirect, DependentsOf(graph, Head(rest)), direct,
                                  filepath),
                      Tail(rest), direct, graph, filepath)

IndirectDependents(graph, filepath) ==
    IndirectFrom(<<>>, DependentsOf(graph, filepath), DependentsOf(graph, filepath),
                 graph, filepath)

WarnDeadCode == "No files import this - might be unused (dead code)"
WarnHighCoupling == "High coupling"
WarnNoTests == "No tests found - changes are risky"
WarnCritical == "CRITICAL: Changes will affect many files - proceed with caution"

\* Warnings that never mention missing tests.
ImpactWarningsSilent(filepath, direct, tests, radius) ==
    (IF Len(direct) = 0 /\ ~Includes(filepath, <<"t", "e", "s", "t">>) THEN <<WarnDeadCode>> ELSE <<>>)
    \o (IF Len(direct) > 20 THEN <<WarnHighCoupling>> ELSE <<>>)
    \o (IF radius = "critical" THEN <<WarnCritical>> ELSE <<>>)

\* The warnings of analyzeImpact.
ImpactWarnings(filepath, direct, tests, radius) ==
    (IF Len(direct) = 0 /\ ~Includes(filepath, <<"t", "e", "s", "t">>) THEN <<WarnDeadCode>> ELSE <<>>)
    \o (IF Len(direct) > 20 THEN <<WarnHighCoupling>> ELSE <<>>)
    \o (IF Len(tests) = 0 /\ ~Includes(filepath, <<"t", "e", "s", "t">>) /\ radius # "small"
        THEN <<WarnNoTests>> ELSE <<>>)
    \o (IF radius = "critical" THEN <<WarnCritical>> ELSE <<>>)

ImpactOf(filepath, direct, indirect, tests, blast) ==
    [primary |-> filepath,
     dependents |-> [direct |-> Take(direct, 20),
                     indirect |-> Take(indirect, 10),
                     tests |-> tests],
     blastRadius |-> blast.radius,
     score |-> blast.score,
     warnings |-> ImpactWarnings(filepath, direct, tests, blast.radius)]

AnalyzeWith(filepath, direct, indirect, tests) ==
    ImpactOf(filepath, direct, indirect, tests,
             calculateBlastRadius(Len(direct), Len(indirect), Len(tests)))

\* analyzeImpact; the related config files take no part in score or radius.
analyzeImpact(filepath, graph, allFiles) ==
    AnalyzeWith(filepath, DependentsOf(graph, filepath),
                IndirectDependents(graph, filepath),
                findRelatedTests(filepath, allFiles))

\* The impact block processRequest attaches to a file of the result.
ImpactBlock(analysis) ==
    [blastRadius |-> analysis.blastRadius,
     score |-> analysis.score,
     directDependents |-> Len(analysis.dependents.direct),
     indirectDependents |-> Len(analysis.dependents.indirect),
     relatedTests |-> Len(analysis.dependents.tests),
     warnings |-> analysis.warnings]

\* Most files that import the analyzed file directly.
MaxDirect == 22

\* Most files that import the first direct dependent.
MaxIndirect == 12

\* Importing files: m/a.ts, m/b.ts, ... import the analyzed file, n/a.ts,
\* n/b.ts, ... import m/a.ts.
DirectFile(k) == <<"m", "/", LowerChars[k], ".", "t", "s">>

IndirectFile(k) == <<"n", "/", LowerChars[k], ".", "t", "s">>

PathStripe == <<"s", "r", "c", "/", "p", "a", "y", "/", "s", "t", "r", "i", "p", "e", ".", "t", "s">>
PathStripeTest == <<"s", "r", "c", "/", "p", "a", "y", "/", "s", "t", "r", "i", "p", "e", ".", "t", "e", "s", "t", ".", "t", "s">>
PathStripeRootTest == <<"t", "e", "s", "t", "s", "/", "s", "t", "r", "i", "p", "e", ".", "t", "e", "s", "t", ".", "t", "s">>

AnalyzedFiles == {PathStripe, PathStripeTest}

TestFileSets == SUBSET {PathStripeTest, PathStripeRootTest}

\* The import graph of a case: d direct dependents; the first of them is
\* imported by i files, and, in a cycle, by the analyzed file and by the
\* second direct dependent; the second is imported by n/a.ts as well.
GraphOf(primary, d, i, cyclic) ==
    [f \in {primary} \cup {DirectFile(k) : k \in 1..Min(d, 2)} |->
        IF f = primary THEN [k \in 1..d |-> DirectFile(k)]
        ELSE IF f = DirectFile(1)
             THEN [k \in 1..i |-> IndirectFile(k)]
                  \o (IF cyclic THEN <<primary, DirectFile(Min(d, 2))>> ELSE <<>>)
        ELSE IF i > 0 THEN <<IndirectFile(1)>> ELSE <<>>]

\* The source files handed to the analyzer: the graph's files and the tests.
AllFilesOf(primary, d, i, tests) ==
    <<primary>> \o [k \in 1..d |-> DirectFile(k)] \o [k \in 1..i |-> IndirectFile(k)]
    \o SelectSeq(<<PathStripeTest, PathStripeRootTest>>,
                 LAMBDA t : t \in tests /\ t # primary)

NoImpact ==
    [called |-> FALSE,
     block |-> [blastRadius |-> "", score |-> 0, directDependents |-> 0,
                indirectDependents |-> 0, relatedTests |-> 0, warnings |-> <<>>]]

IdleImpactCase == [primary |-> PathStripe, direct |-> 0, indirect |-> 0,
                   cyclic |-> FALSE, tests |-> {}]

(***************************************************************************)
(* Session boosts                                                          *)
(***************************************************************************)

\* A view boost without the cap.
ViewBoostUncapped(viewCount) == viewCount * 10

\* Math.min(fileData.viewCount * 10, 50)
ViewBoost(viewCount) == Min(viewCount * 10, 50)

RecencyWindowMs == 300000

\* ageMs < 5 * 60 * 1000 ? 20 : 0
RecencyBoost(ageMs) == IF ageMs < RecencyWindowMs THEN 20 ELSE 0

\* getBoostCandidates on the active session (absent: isNull) at time now;
\* viewedFiles is the session's Map in insertion order.
getBoostCandidates(session, now) ==
    IF session.isNull THEN <<>>
    ELSE [i \in 1..Len(session.viewedFiles) |->
            [path |-> session.viewedFiles[i].path,
             boostFactor |-> ViewBoost(session.viewedFiles[i].viewCount)
                             + RecencyBoost(now - session.viewedFiles[i].lastViewed),
             reason |-> <<"Previously viewed", session.viewedFiles[i].viewCount>>]]

\* Most views of one file recorded in a session.
MaxViews == 6

\* The time of the call, in milliseconds.
Now == 900000

\* Times at which a file was last viewed: 15 and 5 minutes ago, one
\* millisecond less than 5 minutes ago, and at the time of the call.
ViewTimes == {0, Now - RecencyWindowMs, Now - RecencyWindowMs + 1, Now}

ViewedEntries(p) ==
    {[path |-> p, viewCount |-> c, lastViewed |-> t] : c \in 1..MaxViews, t \in ViewTimes}

\* The sessions of the model: none, or one with up to two viewed files.
ActiveSessions ==
    {[isNull |-> TRUE, viewedFiles |-> <<>>], [isNull |-> FALSE, viewedFiles |-> <<>>]}
    \cup {[isNull |-> FALSE, viewedFiles |-> <<a>>] :
            a \in ViewedEntries(PathLogin) \cup ViewedEntries(PathDocsAuth)}
    \cup {[isNull |-> FALSE, viewedFiles |-> <<a, b>>] :
            a \in ViewedEntries(PathLogin), b \in ViewedEntries(PathDocsAuth)}

NoCandidates == [called |-> FALSE, out |-> <<>>]

(***************************************************************************)
(* Session commands: mantic session start, mantic session end [id] and     *)
(* mantic <query> --session <id>, each in a process of its own             *)
(***************************************************************************)

\* Processes running one command each, interleaved at their awaits.
MaxCommands == 2

Commands == 1..MaxCommands

\* How a command names the session: not at all, by its id, by its name.
SessionArgs == {"none", "id", "name"}

\* The files of the result a search records as viewed.
RecordedPaths == <<PathLogin>>

\* The session's file before startSession has written it.  content is
\* "absent", "partial" (opened and truncated by a writeFile that has not
\* written the document yet) or "complete"; doc is the last complete
\* document written to the file.
AbsentFile == [content |-> "absent", doc |-> NoSession]

\* A process that has not been given its command.  active is the session
\* manager's activeSession, NoSession standing for null.
IdleCmd ==
    [kind |-> "idle", arg |-> "none", pc |-> "idle", active |-> NoSession,
     next |-> "idle", out |-> "", existed |-> FALSE]

\* loadSession, up to the path it decides to read: fs.access of <arg>.json
\* succeeds for the id of an existing file; otherwise listSessions parses
\* every session file (returning no session at all when one does not parse)
\* and the name must match a session whose status is active.
ResolvesPath(arg) ==
    IF arg = "id"
    THEN sessionFile.content # "absent"
    ELSE sessionFile.content = "complete" /\ sessionFile.doc.status = "active"

\* loadSession, from readFile on: the parsed document, or null when the file
\* is missing or JSON.parse throws on its content.
ReadSession ==
    IF sessionFile.content = "complete" THEN sessionFile.doc ELSE NoSession

\* endSession on a loaded session, before the save.
MarkEnded(session) == [session EXCEPT !.status = "ended"]

\* The line a command prints when it returns normally.
ReportOf(kind) ==
    CASE kind = "start" -> "Session started"
      [] kind = "end" -> "Session ended"
      [] OTHER -> "results"

(***************************************************************************)
(* CacheManager.save: processes saving the index of one project root       *)
(***************************************************************************)

\* Processes that save the index of the same project root.
MaxSavers == 2

Savers == 1..MaxSavers

\* Write calls fs.writeFile needs for the serialized index.
IndexChunks == 2

\* Chunk k of the index serialized by process p; process 0 stands for the
\* run that wrote the index found at the start.
Chunk(p, k) == [by |-> p, part |-> k]

\* Bytes a file has where nothing was written below a later write.
Hole == [by |-> -1, part |-> 0]

\* The complete serialized index of process p.
CompleteIndex(p) == [k \in 1..IndexChunks |-> Chunk(p, k)]

IsCompleteIndex(content) == \E p \in 0..MaxSavers : content = CompleteIndex(p)

\* A write of chunk c at offset k of a file.
WriteAt(content, k, c) ==
    [i \in 1..Max(Len(content), k) |->
        IF i = k THEN c
        ELSE IF i <= Len(content) THEN content[i] ELSE Hole]

\* A process before it calls save; fd is the inode its descriptor is open
\* on, error tells that save rejected.
IdleSaver == [pc |-> "idle", fd |-> 0, offset |-> 0, error |-> FALSE]

(***************************************************************************)
(* The memory cache under loads and saves of several project roots         *)
(***************************************************************************)

\* The project roots one process loads and saves indices of.
CacheRoots == {ProjectRoot} \cup Range(OtherProjects)

\* The index of a root, on disk or handed to save.
RootIndex(k) == IndexOf(CACHE_VERSION, k, EmptyFiles)

\* CacheManager(k).load after memoryCache.get: a hit is returned, a miss is
\* read from disk and stored in memory.
LoadRootAfterGet(got, k, dsk) ==
    IF got.data.present THEN got
    ELSE IF dsk.present THEN [mem |-> MemSet(got.mem, k, dsk), data |-> dsk]
    ELSE [mem |-> got.mem, data |-> NullIndex]

LoadRoot(mem, k, dsk) == LoadRootAfterGet(MemGet(mem, k), k, dsk)

\* Key k becomes the most recent of a history, which keeps the keys in ks.
Touch(order, k, ks) ==
    SelectSeq(Append(SelectSeq(order, LAMBDA x : x # k), k), LAMBDA x : x \in ks)

\* The cached key whose last read or write is the oldest.
LeastRecentlyUsed(mem, order) ==
    order[CHOOSE i \in 1..Len(order) :
            /\ order[i] \in MemKeys(mem)
            /\ \A j \in 1..(i - 1) : order[j] \notin MemKeys(mem)]

NoUsage == [order |-> <<>>, written |-> <<>>, op |-> [kind |-> "none", key |-> "", hit |-> FALSE]]

(***************************************************************************)
(* scanProjectInternal: context carryover from the previous request        *)
(***************************************************************************)

\* session.json without a lastRequest.
NoLastRequest == [exists |-> FALSE, keywords |-> <<>>, topFiles |-> <<>>]

NotCarried ==
    [called |-> FALSE, contextFiles |-> <<>>, confidence |-> 0,
     scoredFiles |-> <<>>, files |-> <<>>]

\* session.json as an earlier request can have left it.
LastRequests ==
    {NoLastRequest}
    \cup { [exists |-> TRUE, keywords |-> kws, topFiles |-> <<PathLogin>>] :
             kws \in {<<KwLogin>>, <<KwAuth>>, <<KwAuth, KwLogin, KwStripe>>} }

\* The files a cached scan is run over.
CarryFiles == DistinctSeqs({PathLogin, PathLoginTest, PathDocsAuth}, MaxFiles)

\* How many of the current keywords are among the previous ones, compared
\* in lower case.
OverlapCount(last, kws) ==
    Cardinality({i \in 1..Len(kws) :
                    \E j \in 1..Len(last.keywords) :
                        ToLower(kws[i]) = ToLower(last.keywords[j])})

\* overlapPercent > 0.7, overlapPercent being 0 without current keywords.
HighOverlap(last, kws) ==
    Len(kws) > 0 /\ 10 * OverlapCount(last, kws) > 7 * Len(kws)

\* 0.8 + (overlapPercent - 0.7) * 0.5, in ten-thousandths.
OverlapConfidence(last, kws) ==
    8000 + ((ConfidenceScale * OverlapCount(last, kws)) \div Len(kws) - 7000) \div 2

\* contextFiles and contextRelevance.confidence as the carryover block sets
\* them: only a previous request with more than 70% keyword overlap yields
\* context files; <<>> and 0 stand for undefined and null.
Carryover(last, kws) ==
    IF last.exists /\ HighOverlap(last, kws)
    THEN [contextFiles |-> last.topFiles, confidence |-> OverlapConfidence(last, kws)]
    ELSE [contextFiles |-> <<>>, confidence |-> 0]

\* The result is filtered to the context files only.
Restricts(carry) ==
    Len(carry.contextFiles) > 0 /\ 4 * carry.confidence > 3 * ConfidenceScale

\* files after the search: the paths with a positive score, restricted to
\* the context files on a confident follow-up.
FilesAfterSearch(scoredFiles, carry) ==
    PathsOfScored(SelectSeq(scoredFiles,
        LAMBDA f : f.score > 0 /\ (Restricts(carry) => f.path \in Range(carry.contextFiles))))

\* The carryover block of scanProjectInternal with its call of the search.
CarriedWith(carry, scoredFiles) ==
    [called |-> TRUE, contextFiles |-> carry.contextFiles,
     confidence |-> carry.confidence, scoredFiles |-> scoredFiles,
     files |-> FilesAfterSearch(scoredFiles, carry)]

\* The scorers' variables when a specification does not use them.
ScoreIdle ==
    /\ files = <<>>
    /\ keywords = <<>>
    /\ category = "general"
    /\ boosts = NoBoosts
    /\ index = NoIndex
    /\ excerpts = {}
    /\ recentFiles = {}
    /\ contextFiles = {}
    /\ ranked = NotCalled
    /\ smart = NotCalled

\* The pipeline's variables when a specification does not use them.
PipeIdle ==
    /\ request = [query |-> CHOOSE q \in Queries : q.category = "auth", filter |-> "none"]
    /\ sessionDoc = NoSession
    /\ inv = [i \in Invocations |-> IdleInvocation]

\* The scan's variables when a specification does not use them.
ScanIdle ==
    /\ env = [set |-> FALSE, isNaN |-> FALSE, parsed |-> 0]
    /\ scan = ScanStart

\* The cache's variables when a specification does not use them.
CacheIdle ==
    /\ worktree = [p \in CachePaths |-> [listed |-> FALSE, stamp |-> 0]]
    /\ disk = NullIndex
    /\ memory = <<>>
    /\ run = RunStart

\* The loader's variables when a specification does not use them.
LoadIdle ==
    /\ loaderEnv = LoaderIdleEnv
    /\ loaded = NotLoaded

\* The request's variables when a specification does not use them.
RequestIdle ==
    /\ cli = IdleCommand
    /\ response = NoResponse

\* The impact analyzer's variables when a specification does not use them.
ImpactIdle ==
    /\ impactCase = IdleImpactCase
    /\ impact = NoImpact

\* The boost variables when a specification does not use them.
BoostIdle ==
    /\ activeSession = [isNull |-> TRUE, viewedFiles |-> <<>>]
    /\ candidates = NoCandidates

\* The session commands' variables when a specification does not use them.
SessIdle ==
    /\ sessionFile = AbsentFile
    /\ cmd = [p \in Commands |-> IdleCmd]

\* The index savers' variables when a specification does not use them.
SaveIdle ==
    /\ inodes = <<>>
    /\ dirents = [tmp |-> 0, index |-> 0]
    /\ saver = [p \in Savers |-> IdleSaver]

\* The memory cache's history when a specification does not use it.
MemIdle ==
    usage = NoUsage

\* The carryover's variables when a specification does not use them.
CarryIdle ==
    /\ lastRequest = NoLastRequest
    /\ carried = NotCarried

(***************************************************************************)
(* Specification SpecRank: rankFiles applied to bounded inputs             *)
(***************************************************************************)

InitRank ==
    /\ CarryIdle
    /\ SessIdle
    /\ SaveIdle
    /\ MemIdle
    /\ LoadIdle
    /\ RequestIdle
    /\ ImpactIdle
    /\ BoostIdle
    /\ files \in DistinctSeqs(PathUniverse, MaxFiles)
    /\ keywords \in KeywordLists
    /\ category \in Categories
    /\ boosts \in BoostSets
    /\ index = NoIndex
    /\ excerpts = {}
    /\ recentFiles = {}
    /\ contextFiles = {}
    /\ ranked = NotCalled
    /\ smart = NotCalled
    /\ PipeIdle
    /\ ScanIdle
    /\ CacheIdle

\* ManticEngine.rankFiles(files, keywords, intent)
RankFiles ==
    /\ ~ranked.called
    /\ ranked' = [called |-> TRUE, out |-> rankFiles(files, keywords, category, boosts)]
    /\ UNCHANGED <<files, keywords, category, boosts, index, excerpts,
                   recentFiles, contextFiles, smart>>
    /\ UNCHANGED <<pipeVars, scanVars, cacheVars, loadVars, reqVars, impactVars, boostVars, sessVars, saveVars, memVars, carryVars>>

NextRank == RankFiles

SpecRank == InitRank /\ [][NextRank]_vars

(***************************************************************************)
(* Specification SpecSmart: SmartFilter.search applied to bounded inputs   *)
(***************************************************************************)

InitSmart ==
    /\ CarryIdle
    /\ SessIdle
    /\ SaveIdle
    /\ MemIdle
    /\ LoadIdle
    /\ RequestIdle
    /\ ImpactIdle
    /\ BoostIdle
    /\ files \in DistinctSeqs(PathUniverse, MaxFiles)
    /\ keywords \in KeywordLists
    /\ category = "auth"
    /\ boosts = NoBoosts
    /\ index \in IndexUniverse
    /\ excerpts \in {{}, {PathLoginTest}}
    /\ recentFiles \in {{}, {PathDocsAuth}}
    /\ contextFiles \in {{}, {PathLogin}}
    /\ ranked = NotCalled
    /\ smart = NotCalled
    /\ PipeIdle
    /\ ScanIdle
    /\ CacheIdle

\* SmartFilter.search(files, keywords, cache, root, contextFiles); the call
\* sorts the caller's keyword array in place after it has generated the
\* constraints and before it picks the primary keyword.
Search ==
    /\ ~smart.called
    /\ smart' = [called |-> TRUE,
                 out |-> SmartSearch(files, keywords, index, recentFiles,
                                     contextFiles, excerpts),
                 applied |-> SearchOrder(files, keywords, index),
                 primary |-> getPrimaryKeyword(SortKeywords(keywords))]
    /\ keywords' = SortKeywords(keywords)
    /\ UNCHANGED <<files, category, boosts, index, excerpts,
                   recentFiles, contextFiles, ranked>>
    /\ UNCHANGED <<pipeVars, scanVars, cacheVars, loadVars, reqVars, impactVars, boostVars, sessVars, saveVars, memVars, carryVars>>

NextSmart == Search

SpecSmart == InitSmart /\ [][NextSmart]_vars

(***************************************************************************)
(* Claims about the scorers                                                *)
(***************************************************************************)

\* C1: in the output of rankFiles every entry has, against the entry after
\* it, a strictly higher score, or the same score and a path that is smaller
\* in byte-wise lexicographic order.
C1_ByteOrderTieBreak ==
    ranked.called =>
        \A i \in 1..(Len(ranked.out) - 1) :
            \/ ranked.out[i].score > ranked.out[i + 1].score
            \/ /\ ranked.out[i].score = ranked.out[i + 1].score
               /\ ByteLess(ranked.out[i].path, ranked.out[i + 1].path)

\* C2: every score in the output of rankFiles and in the output of
\* SmartFilter.search is at least 0.
C2_ScoresNonNegative ==
    /\ ranked.called => \A i \in 1..Len(ranked.out) : ranked.out[i].score >= 0
    /\ smart.called => \A i \in 1..Len(smart.out) : smart.out[i].score >= 0

(***************************************************************************)
(* Specification SpecPipeline: invocations of processRequest, interleaved  *)
(* at their awaits, over one repository and one session document           *)
(***************************************************************************)

InitPipeline ==
    /\ CarryIdle
    /\ SessIdle
    /\ SaveIdle
    /\ MemIdle
    /\ LoadIdle
    /\ RequestIdle
    /\ ImpactIdle
    /\ BoostIdle
    /\ ScoreIdle
    /\ ScanIdle
    /\ CacheIdle
    /\ request \in [query : Queries, filter : FilterTypes]
    /\ sessionDoc \in {NoSession, NewSession}
    /\ inv = [i \in Invocations |-> IdleInvocation]

\* Phases 1-3: intent analysis, scan, ranking, result record.  Only the
\* repository is read, which no invocation writes.  `after` remembers the
\* invocations that had finished when this one started.
Scan(i) ==
    /\ inv[i].pc = "idle"
    /\ \E session \in BOOLEAN, allFiles \in Enumerations, elapsed \in 0..MaxElapsed :
          inv' = [inv EXCEPT ![i] =
                    [@ EXCEPT !.pc = IF session THEN "load" ELSE "output",
                              !.useSession = session,
                              !.result = ContextResultOf(request.query, request.filter,
                                                         allFiles, elapsed),
                              !.after = {k \in Invocations : inv[k].pc = "done"}]]
    /\ UNCHANGED <<scoreVars, scanVars, cacheVars, loadVars, reqVars, impactVars, boostVars, request, sessionDoc, sessVars, saveVars, memVars, carryVars>>

\* Phase 4: sm.loadSession(options.session)
LoadSession(i) ==
    /\ inv[i].pc = "load"
    /\ inv' = [inv EXCEPT ![i] =
                 IF sessionDoc.status = "missing"
                 THEN [@ EXCEPT !.pc = "output"]
                 ELSE [@ EXCEPT !.pc = "recordQuery", !.active = sessionDoc]]
    /\ UNCHANGED <<scoreVars, scanVars, cacheVars, loadVars, reqVars, impactVars, boostVars, request, sessionDoc, sessVars, saveVars, memVars, carryVars>>

\* sm.recordQuery(...): updates the loaded session and saves it.
RecordQuery(i) ==
    /\ inv[i].pc = "recordQuery"
    /\ inv' = [inv EXCEPT ![i] =
                 [@ EXCEPT !.pc = "recordViews", !.active = recordQuery(@)]]
    /\ sessionDoc' = inv'[i].active
    /\ UNCHANGED <<scoreVars, scanVars, cacheVars, loadVars, reqVars, impactVars, boostVars, request, sessVars, saveVars, memVars, carryVars>>

\* A result whose scores carry the boost of one recorded view.
Rescored(result) ==
    [result EXCEPT !.files =
        [k \in 1..Len(result.files) |->
            [result.files[k] EXCEPT !.relevanceScore = @ + 10 * ScoreScale]]]

\* A recording step that also rescored the result with the views it records.
RecordFileViewsRescoring(i) ==
    /\ inv[i].pc = "recordViews"
    /\ inv' = [inv EXCEPT ![i] =
                 [@ EXCEPT !.pc = "output", !.recorded = TRUE,
                           !.active = recordFileViews(@, PathsOf(inv[i].result)),
                           !.result = Rescored(@)]]
    /\ sessionDoc' = inv'[i].active
    /\ UNCHANGED <<scoreVars, scanVars, cacheVars, loadVars, reqVars, impactVars, boostVars, sessVars, saveVars, memVars, request, carryVars>>

\* sm.recordFileViews(contextResult.files): updates the loaded session and
\* saves it.
RecordFileViews(i) ==
    /\ inv[i].pc = "recordViews"
    /\ inv' = [inv EXCEPT ![i] =
                 [@ EXCEPT !.pc = "output", !.recorded = TRUE,
                           !.active = recordFileViews(@, PathsOf(inv[i].result))]]
    /\ sessionDoc' = inv'[i].active
    /\ UNCHANGED <<scoreVars, scanVars, cacheVars, loadVars, reqVars, impactVars, boostVars, request, sessVars, saveVars, memVars, carryVars>>

\* The formatted result is printed and returned.
Output(i) ==
    /\ inv[i].pc = "output"
    /\ inv' = [inv EXCEPT ![i] = [@ EXCEPT !.pc = "done"]]
    /\ UNCHANGED <<scoreVars, scanVars, cacheVars, loadVars, reqVars, impactVars, boostVars, request, sessionDoc, sessVars, saveVars, memVars, carryVars>>

NextPipeline ==
    \E i \in Invocations :
        \/ Scan(i)
        \/ LoadSession(i)
        \/ RecordQuery(i)
        \/ RecordFileViews(i)
        \/ Output(i)

SpecPipeline == InitPipeline /\ [][NextPipeline]_vars

(***************************************************************************)
(* Claims about the pipeline and the session                               *)
(***************************************************************************)

\* Two finished invocations without a session, j started after i ended.
BackToBack(i, j) ==
    /\ inv[i].pc = "done" /\ inv[j].pc = "done"
    /\ i \in inv[j].after
    /\ ~inv[i].useSession /\ ~inv[j].useSession

WithoutTime(result) == [result EXCEPT !.timeMs = 0]

C4_RecordFileViews ==
    [][\A i \in Invocations :
          (inv[i].pc = "recordViews" /\ inv'[i].pc = "output") =>
              \A p \in PathUniverse :
                  IF p \in Range(PathsOf(inv[i].result))
                  THEN ViewCount(inv'[i].active, p) > ViewCount(inv[i].active, p)
                  ELSE ViewCount(inv'[i].active, p) = ViewCount(inv[i].active, p)]_vars

\* recordFileViews has incremented the count of a path already in the
\* session and has left a path of the repository out.
C4_Witness ==
    \E i \in Invocations :
        /\ inv[i].recorded
        /\ \E p \in PathUniverse : ViewCount(inv[i].active, p) >= 2
        /\ \E q \in Range(RepoFiles) : ViewCount(inv[i].active, q) = 0

\* C5: the viewCount of a path in the persisted session document never
\* decreases, under any interleaving of invocations that load the session,
\* record and save without locking.
C5_PersistedViewCountMonotone ==
    [][\A p \in PathUniverse :
          ViewCount(sessionDoc', p) >= ViewCount(sessionDoc, p)]_vars

\* The score of a path in a result, -1 when the path is not in it.
ScoreIn(result, p) ==
    IF \E k \in 1..Len(result.files) : result.files[k].path = p
    THEN result.files[CHOOSE k \in 1..Len(result.files) :
                          result.files[k].path = p].relevanceScore
    ELSE -1

\* C6: a file returned and recorded by a first search of a session has, in
\* the output of a second search of the same session, a score at least 10
\* (one prior view) above its score without the session.
C6_SessionBoostApplied ==
    \A i, j \in Invocations :
        ( /\ inv[j].pc = "done" /\ inv[j].useSession
          /\ i \in inv[j].after /\ inv[i].recorded ) =>
            \A p \in Range(PathsOf(inv[i].result)) :
                ScoreIn(inv[j].result, p) >=
                    scoreUltraFast(p, request.query.keywords,
                                   request.query.category, NoBoosts)
                    + 10 * ScoreScale

\* The results the request has without any session, whatever the order of
\* the enumeration, the scan time left aside.
SessionlessResults ==
    { WithoutTime(ContextResultOf(request.query, request.filter, e, 0)) :
        e \in Enumerations }

\* C25: within one invocation, session recording starts only after scoring
\* and the assembly of the result have finished, no score is computed or
\* changed from then on, and the views the invocation records do not
\* influence its own scores.
C25_RecordingAfterScoring ==
    [][\A i \in Invocations :
          /\ inv'[i].pc \in {"load", "recordQuery", "recordViews"} =>
                WithoutTime(inv'[i].result) \in SessionlessResults
          /\ inv[i].pc \in {"load", "recordQuery", "recordViews", "output", "done"} =>
                inv'[i].result = inv[i].result
          /\ inv'[i].pc = "done" =>
                WithoutTime(inv'[i].result) \in SessionlessResults]_vars

\* An invocation has finished after recording its query and the files it
\* returned, which the persisted session now counts as viewed.
C25_Witness ==
    \E i \in Invocations :
        /\ inv[i].pc = "done" /\ inv[i].recorded
        /\ Len(inv[i].result.files) > 0
        /\ \A p \in Range(PathsOf(inv[i].result)) : ViewCount(inv[i].active, p) >= 1
        /\ inv[i].active.queryCount >= 1

(***************************************************************************)
(* Specification SpecScan                                                  *)
(***************************************************************************)

InitScan ==
    /\ CarryIdle
    /\ SessIdle
    /\ SaveIdle
    /\ MemIdle
    /\ LoadIdle
    /\ RequestIdle
    /\ ImpactIdle
    /\ BoostIdle
    /\ ScoreIdle
    /\ PipeIdle
    /\ CacheIdle
    /\ env \in EnvValues
    /\ \E semantic \in BOOLEAN : scan = [ScanStart EXCEPT !.semantic = semantic]

\* A stretch of the internal scan that ends in an await on I/O.  A due timer
\* runs before the scan is resumed.
ScanStep ==
    /\ scan.stage < ScanStages - 1
    /\ ~TimerDue
    /\ \E d \in StepDurations :
          scan' = [scan EXCEPT !.clock = @ + d, !.stage = @ + 1,
                               !.writes = IF scan.semantic
                                          THEN @ \o StageWrite(scan.stage + 1)
                                          ELSE @]
    /\ UNCHANGED <<scoreVars, pipeVars, cacheVars, loadVars, reqVars, impactVars, boostVars, env, sessVars, saveVars, memVars, carryVars>>

\* The last stretch: synchronous up to the return, which settles the race
\* when the timer has not.
ScanFinish ==
    /\ scan.stage = ScanStages - 1
    /\ ~TimerDue
    /\ \E d \in StepDurations :
          scan' = [scan EXCEPT !.clock = @ + d, !.stage = @ + 1,
                               !.internalEnd = scan.clock + d,
                               !.returned = TRUE,
                               !.result = IF scan.returned THEN @ ELSE FullScanResult]
    /\ UNCHANGED <<scoreVars, pipeVars, cacheVars, loadVars, reqVars, impactVars, boostVars, env, sessVars, saveVars, memVars, carryVars>>

\* The timer's callback rejects; the catch block returns the empty result
\* when the race is not settled yet.
TimerFires ==
    /\ TimerDue
    /\ scan' = [scan EXCEPT !.timerFired = TRUE,
                            !.returned = TRUE,
                            !.result = IF scan.returned THEN @ ELSE EmptyScanResult]
    /\ UNCHANGED <<scoreVars, pipeVars, cacheVars, loadVars, reqVars, impactVars, boostVars, env, sessVars, saveVars, memVars, carryVars>>

NextScan == ScanStep \/ ScanFinish \/ TimerFires

SpecScan == InitScan /\ [][NextScan]_vars

\* The internal scan had not finished when the timeout elapsed.
ScanNotFinishedInTime ==
    scan.internalEnd = -1 \/ scan.internalEnd > getTimeout(env)

\* C7: when the scan does not finish within the scan timeout, scanProject
\* returns empty file and scored-file lists, never a partial list.
C7_TimeoutYieldsEmpty ==
    (scan.returned /\ ScanNotFinishedInTime) => scan.result = EmptyScanResult

\* scanProject has returned the empty result because the timer fired.
TimedOut ==
    scan.timerFired /\ scan.returned /\ scan.result = EmptyScanResult

\* C22: once the timeout has fired and scanProject has returned the empty
\* result, the timed-out scan executes no further stage and writes neither
\* index.json nor session.json.
C22_NoStageAfterTimeout ==
    [][TimedOut => (scan'.stage = scan.stage /\ scan'.writes = scan.writes)]_vars

\* C22, the writes alone: no file is written after the timeout was reported.
C22_NoWriteAfterTimeout ==
    [][TimedOut => scan'.writes = scan.writes]_vars

(***************************************************************************)
(* Specification SpecCache: the cache steps of scanProjectInternal         *)
(***************************************************************************)

InitCache ==
    /\ CarryIdle
    /\ SessIdle
    /\ SaveIdle
    /\ MemIdle
    /\ LoadIdle
    /\ RequestIdle
    /\ ImpactIdle
    /\ BoostIdle
    /\ ScoreIdle
    /\ PipeIdle
    /\ ScanIdle
    /\ worktree \in [CachePaths -> PathStates]
    /\ disk \in DiskIndices
    /\ memory \in Memories
    /\ run = RunStart

LoadDone(r) ==
    /\ memory' = r.mem
    /\ run' = [run EXCEPT !.pc = "loaded", !.cache = r.data, !.aliased = r.data.present]

\* cache = await cacheManager.load()
Load ==
    /\ run.pc = "start"
    /\ LoadDone(load(memory, disk))
    /\ UNCHANGED <<scoreVars, pipeVars, scanVars, loadVars, reqVars, impactVars, boostVars, worktree, disk, sessVars, saveVars, memVars, carryVars>>

\* forceRefresh: the scan starts without an index.
ForceRefresh ==
    /\ run.pc = "start"
    /\ run' = [run EXCEPT !.pc = "checked"]
    /\ UNCHANGED <<scoreVars, pipeVars, scanVars, loadVars, reqVars, impactVars, boostVars, worktree, disk, memory, sessVars, saveVars, memVars, carryVars>>

\* if (cache && await cacheManager.shouldInvalidate(cache)) cache = null
CheckInvalidate ==
    /\ run.pc = "loaded"
    /\ \E pkgChanged \in BOOLEAN, tooOld \in BOOLEAN :
          run' = [run EXCEPT !.pc = "checked",
                             !.cache = IF run.cache.present
                                          /\ shouldInvalidate(run.cache, pkgChanged, tooOld)
                                       THEN NullIndex ELSE @,
                             !.aliased = run.aliased
                                         /\ ~shouldInvalidate(run.cache, pkgChanged, tooOld)]
    /\ UNCHANGED <<scoreVars, pipeVars, scanVars, loadVars, reqVars, impactVars, boostVars, worktree, disk, memory, sessVars, saveVars, memVars, carryVars>>

\* cache = await cacheManager.buildFromScratch(files, techStack, parser)
BuildFromScratch ==
    /\ run.pc = "checked"
    /\ ~run.cache.present
    /\ run' = [run EXCEPT !.pc = "indexed", !.cache = buildFromScratch(worktree)]
    /\ UNCHANGED <<scoreVars, pipeVars, scanVars, loadVars, reqVars, impactVars, boostVars, worktree, disk, memory, sessVars, saveVars, memVars, carryVars>>

\* const changes = await cacheManager.getStaleFiles(cache, files)
GetStaleFiles ==
    /\ run.pc = "checked"
    /\ run.cache.present
    /\ run' = [run EXCEPT !.pc = "stale", !.changes = getStaleFiles(run.cache, worktree)]
    /\ UNCHANGED <<scoreVars, pipeVars, scanVars, loadVars, reqVars, impactVars, boostVars, worktree, disk, memory, sessVars, saveVars, memVars, carryVars>>

TotalChanges(changes) ==
    Cardinality(changes.modified) + Cardinality(changes.added) + Cardinality(changes.deleted)

UpdateDone(cache) ==
    /\ run' = [run EXCEPT !.pc = "indexed", !.cache = cache, !.updated = TRUE]
    /\ memory' = MemAlias(memory, cache, run.aliased)

\* if (totalChanges > 0) cache = await cacheManager.updateIncrementally(...)
UpdateIncrementally ==
    /\ run.pc = "stale"
    /\ TotalChanges(run.changes) > 0
    /\ UpdateDone(updateIncrementally(run.cache, run.changes, worktree))
    /\ UNCHANGED <<scoreVars, pipeVars, scanVars, loadVars, reqVars, impactVars, boostVars, worktree, disk, sessVars, saveVars, memVars, carryVars>>

NothingChanged ==
    /\ run.pc = "stale"
    /\ TotalChanges(run.changes) = 0
    /\ run' = [run EXCEPT !.pc = "indexed"]
    /\ UNCHANGED <<scoreVars, pipeVars, scanVars, loadVars, reqVars, impactVars, boostVars, worktree, disk, memory, sessVars, saveVars, memVars, carryVars>>

\* await cacheManager.save(cache)
Save ==
    /\ run.pc = "indexed"
    /\ memory' = MemSet(memory, ProjectRoot, run.cache)
    /\ disk' = run.cache
    /\ run' = [run EXCEPT !.pc = "saved", !.aliased = TRUE]
    /\ UNCHANGED <<scoreVars, pipeVars, scanVars, loadVars, reqVars, impactVars, boostVars, worktree, sessVars, saveVars, memVars, carryVars>>

NextCache ==
    \/ Load
    \/ ForceRefresh
    \/ CheckInvalidate
    \/ BuildFromScratch
    \/ GetStaleFiles
    \/ UpdateIncrementally
    \/ NothingChanged
    \/ Save

SpecCache == InitCache /\ [][NextCache]_vars

(***************************************************************************)
(* Claims about the cache                                                  *)
(***************************************************************************)

\* C8 (as stated): when the persisted index carries a version other than
\* CACHE_VERSION, CacheManager.load yields null, whatever the memory cache
\* holds.
C8_VersionMismatchLoadsNull ==
    (run.pc = "loaded" /\ disk.present /\ disk.version # CACHE_VERSION)
        => ~run.cache.present

\* C8 (amended): load yields null only when there is no persisted index; an
\* index of another version, from memory or from disk, is discarded by the
\* scan's shouldInvalidate check, so the scan never goes on with one.
C8_VersionMismatchDiscarded ==
    /\ (run.pc = "loaded" /\ ~run.cache.present) => ~disk.present
    /\ (run.pc \notin {"start", "loaded"} /\ run.cache.present)
          => run.cache.version = CACHE_VERSION

\* A persisted index of another version was loaded, kept in memory, and
\* discarded by the check.
C8_Witness ==
    /\ run.pc = "checked"
    /\ ~run.cache.present
    /\ disk.present
    /\ disk.version # CACHE_VERSION
    /\ ProjectRoot \in MemKeys(memory)
    /\ memory[MemIndexOf(memory, ProjectRoot)].data = disk

PairwiseDisjoint(c) ==
    /\ c.added \cap c.modified = {}
    /\ c.added \cap c.deleted = {}
    /\ c.modified \cap c.deleted = {}

SymmetricDifference(a, b) == (a \ b) \cup (b \ a)

StaleUnion(c) == c.added \cup c.modified \cup c.deleted

ChangedInPlace(cache, wt) ==
    { p \in IndexedPaths(cache) \cap Listed(wt) :
        wt[p].stamp # 0 /\ wt[p].stamp # cache.files[p].stamp }

UpdateStep == run.pc = "stale" /\ run'.pc = "indexed" /\ run'.updated

\* The entry of a path, or none.
EntryAt(cache, p) ==
    IF p \in IndexedPaths(cache) THEN <<cache.files[p]>> ELSE <<>>

FrameKept ==
    \A p \in CachePaths \ StaleUnion(run.changes) :
        EntryAt(run'.cache, p) = EntryAt(run.cache, p)

DeletedAbsent == run.changes.deleted \cap IndexedPaths(run'.cache) = {}

InitLoad ==
    /\ CarryIdle
    /\ SessIdle
    /\ SaveIdle
    /\ MemIdle
    /\ ScoreIdle
    /\ PipeIdle
    /\ ScanIdle
    /\ CacheIdle
    /\ RequestIdle
    /\ ImpactIdle
    /\ BoostIdle
    /\ loaderEnv \in [isGit : BOOLEAN, git : ProcessOutcomes, untrackedOk : BOOLEAN,
                      fdAvailable : BOOLEAN, fd : ProcessOutcomes, glob : GlobOutcomes,
                      tracked : TrackedLists, untracked : UntrackedLists,
                      ignoreEnv : IgnoreEnvValues]
    /\ loaded = NotLoaded

\* new NativeLoader(getIgnorePatterns()).loadFiles(cwd)
LoadFiles ==
    /\ ~loaded.called
    /\ loaded' = loadFiles(loaderEnv, getIgnorePatterns(loaderEnv.ignoreEnv))
    /\ UNCHANGED <<scoreVars, pipeVars, scanVars, cacheVars, reqVars, impactVars, boostVars, loaderEnv, sessVars, saveVars, memVars, carryVars>>

NextLoad == LoadFiles

SpecLoad == InitLoad /\ [][NextLoad]_vars

(***************************************************************************)
(* Claims about the enumerator                                             *)
(***************************************************************************)

\* The first strategy, in the order git, fd, glob, that does not fail.
FirstWorkingStrategy(e) ==
    IF e.isGit /\ e.git = "ok" THEN "git"
    ELSE IF e.fdAvailable /\ e.fd = "ok" THEN "fd"
    ELSE IF e.glob = "ok" THEN "glob"
    ELSE "none"

\* C11: loadFiles tries git, then fd, then the glob walker; whenever one
\* strategy fails the next one is tried, and when every strategy fails the
\* result is the empty list.
C11_FailureFallsThrough ==
    loaded.called =>
        IF FirstWorkingStrategy(loaderEnv) = "none"
        THEN loaded.out = <<>>
        ELSE loaded.strategy = FirstWorkingStrategy(loaderEnv)

\* The built-in patterns that name a directory to ignore.
DirectoryPatterns ==
    { IGNORE_PATTERNS[i] : i \in {k \in 1..Len(IGNORE_PATTERNS) :
                                     EndsWith(IGNORE_PATTERNS[k], SlashGlobStar)} }

UnderIgnoredDirectory(file) == \E p \in DirectoryPatterns : GlobMatches(p, file)

UserPatterns(envPatterns) ==
    Range(getIgnorePatterns(envPatterns)) \ Range(IGNORE_PATTERNS)

\* C12: whichever strategy produced it, no path of the enumerator's output
\* lies under a directory of the built-in ignore set or matches a
\* user-supplied pattern.
C12_NoIgnoredPathInOutput ==
    loaded.called =>
        \A i \in 1..Len(loaded.out) :
            /\ ~UnderIgnoredDirectory(loaded.out[i])
            /\ \A p \in UserPatterns(loaderEnv.ignoreEnv) : ~GlobMatches(p, loaded.out[i])

(***************************************************************************)
(* Specification SpecRequest: processRequest on bounded prompts and        *)
(* repositories                                                            *)
(***************************************************************************)

InitRequest ==
    /\ CarryIdle
    /\ SessIdle
    /\ SaveIdle
    /\ MemIdle
    /\ ScoreIdle
    /\ PipeIdle
    /\ ScanIdle
    /\ CacheIdle
    /\ LoadIdle
    /\ ImpactIdle
    /\ BoostIdle
    /\ cli \in [prompt : Prompts, filter : FilterTypes,
                maxFiles : MaxFilesEnvValues, repo : Repositories]
    /\ response = NoResponse

\* One run of the command: processRequest up to its result record.
ProcessRequest ==
    /\ ~response.called
    /\ response' = [called |-> TRUE,
                    result |-> processRequest(cli.prompt, cli.filter, cli.maxFiles,
                                              cli.repo)]
    /\ UNCHANGED <<scoreVars, pipeVars, scanVars, cacheVars, loadVars, impactVars,
                   boostVars, cli, sessVars, saveVars, memVars, carryVars>>

NextRequest == ProcessRequest

SpecRequest == InitRequest /\ [][NextRequest]_vars

(***************************************************************************)
(* Claims about the result of a request                                    *)
(***************************************************************************)

\* C13: for every query and repository, the number of files in the returned
\* result never exceeds MANTIC_MAX_FILES (300 when the variable is unset or
\* no positive integer).
C13_ResultWithinMaxFiles ==
    response.called => Len(response.result.files) <= getMaxFiles(cli.maxFiles)

\* C14: for the empty query the result has intent category general and
\* confidence 0, and its file list is non-empty whenever the repository has
\* at least one enumerated file; it is empty only for the empty repository.
C14_EmptyQueryListsFiles ==
    response.called /\ cli.prompt = PromptEmpty =>
        /\ response.result.intent.category = "general"
        /\ response.result.intent.confidence = 0
        /\ Len(response.result.files) = 0 <=> Len(cli.repo) = 0

ResultIndexOf(p) ==
    {i \in 1..Len(response.result.files) : response.result.files[i].path = p}

\* C17: with src/auth/login.ts and src/auth/login.test.ts in the repository
\* and a login query run with --code, the result lists the test file with a
\* lower score than login.ts, and the warnings include a duplicate_test
\* warning from login.test.ts to login.ts.
C17_TestListedWithDuplicateWarning ==
    /\ response.called
    /\ cli.filter = "code"
    /\ KwLogin \in Range(response.result.intent.keywords)
    /\ {PathLogin, PathLoginTest} \subseteq Range(cli.repo)
    => /\ \E i \in ResultIndexOf(PathLoginTest), j \in ResultIndexOf(PathLogin) :
             response.result.files[i].relevanceScore
                < response.result.files[j].relevanceScore
       /\ \E k \in 1..Len(response.result.warnings) :
             /\ response.result.warnings[k].type = "duplicate_test"
             /\ response.result.warnings[k].derivativeFile = PathLoginTest
             /\ response.result.warnings[k].canonicalFile = PathLogin

NameButton == <<"B", "u", "t", "t", "o", "n">>

\* C18: for the query ButtonXyzzy in a repository that holds Button.tsx, the
\* result has a component_not_found warning whose suggestions contain
\* Button, and validation.isValid is false with foundCount < entityCount.
C18_UnknownComponentWarned ==
    /\ response.called
    /\ cli.prompt = PromptButtonXyzzy
    /\ PathButton \in Range(cli.repo)
    => /\ \E k \in 1..Len(response.result.warnings) :
             /\ response.result.warnings[k].type = "component_not_found"
             /\ \E s \in Range(response.result.warnings[k].suggestions) :
                   Includes(s, NameButton)
       /\ response.result.validation.present
       /\ ~response.result.validation.isValid
       /\ response.result.validation.foundCount
             < response.result.validation.entityCount

\* C19: for script_controller.cc and script_controller.h in one directory and
\* the query ScriptController, the structural scorer gives the .cc file a
\* strictly higher score than the .h file, so the .cc file is ranked first.
C19_SourceOutranksHeader ==
    /\ response.called
    /\ cli.prompt = PromptScriptController
    /\ cli.filter = "none"
    /\ {PathScriptCc, PathScriptH} \subseteq Range(cli.repo)
    => /\ scoreUltraFast(PathScriptCc, response.result.intent.keywords,
                         response.result.intent.category, EngineBoosts)
          > scoreUltraFast(PathScriptH, response.result.intent.keywords,
                           response.result.intent.category, EngineBoosts)
       /\ Len(response.result.files) > 0
       /\ response.result.files[1].path = PathScriptCc

(***************************************************************************)
(* Specification SpecImpact: analyzeImpact on bounded import graphs        *)
(***************************************************************************)

InitImpact ==
    /\ CarryIdle
    /\ SessIdle
    /\ SaveIdle
    /\ MemIdle
    /\ ScoreIdle
    /\ PipeIdle
    /\ ScanIdle
    /\ CacheIdle
    /\ LoadIdle
    /\ RequestIdle
    /\ BoostIdle
    /\ impactCase \in [primary : AnalyzedFiles, direct : 0..MaxDirect,
                       indirect : 0..MaxIndirect, cyclic : BOOLEAN,
                       tests : TestFileSets]
    /\ impact = NoImpact

\* Phase 3 of processRequest for one file of the result.
AnalyzeImpact ==
    /\ ~impact.called
    /\ impact' =
         [called |-> TRUE,
          block |-> ImpactBlock(
                      analyzeImpact(impactCase.primary,
                                    GraphOf(impactCase.primary, impactCase.direct,
                                            impactCase.indirect, impactCase.cyclic),
                                    AllFilesOf(impactCase.primary, impactCase.direct,
                                               impactCase.indirect, impactCase.tests)))]
    /\ UNCHANGED <<scoreVars, pipeVars, scanVars, cacheVars, loadVars, reqVars,
                   boostVars, impactCase, sessVars, saveVars, memVars, carryVars>>

NextImpact == AnalyzeImpact

SpecImpact == InitImpact /\ [][NextImpact]_vars

(***************************************************************************)
(* Claims about the impact block                                           *)
(***************************************************************************)

\* The files that import the analyzed file, and the files that import one of
\* those and are neither among them nor the analyzed file, counted from the
\* shape of the case.
GraphDirect == impactCase.direct

GraphIndirect == IF impactCase.direct >= 1 THEN impactCase.indirect ELSE 0

BucketMatches(block) ==
    /\ block.blastRadius = "small" <=> block.score < 20
    /\ block.blastRadius = "medium" <=> 20 <= block.score /\ block.score < 50
    /\ block.blastRadius = "large" <=> 50 <= block.score /\ block.score < 80
    /\ block.blastRadius = "critical" <=> block.score >= 80

\* C15 as stated: for every impact block the score equals
\* min(100, 10*d + 3*i + 2*t) for the reported counts d (at most 20),
\* i (at most 10) and t, and the blast radius is small below 20, medium
\* below 50, large below 80 and critical from 80 on.
C15_ScoreFromReportedCounts ==
    impact.called =>
        /\ impact.block.directDependents <= 20
        /\ impact.block.indirectDependents <= 10
        /\ impact.block.score =
              Min(100, 10 * impact.block.directDependents
                       + 3 * impact.block.indirectDependents
                       + 2 * impact.block.relatedTests)
        /\ BucketMatches(impact.block)

\* C15, amended: the score equals min(100, 10*D + 3*I + 2*t) for the numbers
\* D and I of direct and indirect dependents in the graph and the reported
\* number t of related tests; the block reports min(D, 20) and min(I, 10);
\* the blast radius is small below 20, medium below 50, large below 80 and
\* critical from 80 on.
C15_ScoreFromGraphCounts ==
    impact.called =>
        /\ impact.block.directDependents = Min(GraphDirect, 20)
        /\ impact.block.indirectDependents = Min(GraphIndirect, 10)
        /\ impact.block.score =
              Min(100, 10 * GraphDirect + 3 * GraphIndirect
                       + 2 * impact.block.relatedTests)
        /\ BucketMatches(impact.block)

\* More than ten indirect dependents and a score below the cap, with a
\* related test: the case in which the reported counts and the weight of
\* the tests matter.
C15_Witness ==
    /\ impact.called
    /\ GraphIndirect > 10
    /\ impact.block.relatedTests > 0
    /\ impact.block.score < 100
    /\ impact.block.blastRadius = "large"

\* A file that is no test, imported by exactly three files, with no indirect
\* dependents and no related tests.
ThreeImporters ==
    /\ impact.called
    /\ impactCase.primary = PathStripe
    /\ GraphDirect = 3
    /\ GraphIndirect = 0
    /\ impact.block.indirectDependents = 0
    /\ impact.block.relatedTests = 0

\* C16 as stated: such a file gets directDependents = 3, score >= 30,
\* blastRadius = small and no warnings.
C16_ThreeImportersSmall ==
    ThreeImporters =>
        /\ impact.block.directDependents = 3
        /\ impact.block.score >= 30
        /\ impact.block.blastRadius = "small"
        /\ impact.block.warnings = <<>>

\* C16, amended: such a file gets directDependents = 3, score = 30,
\* blastRadius = medium and the single warning that no tests were found.
C16_ThreeImportersMedium ==
    ThreeImporters =>
        /\ impact.block.directDependents = 3
        /\ impact.block.score = 30
        /\ impact.block.blastRadius = "medium"
        /\ impact.block.warnings = <<WarnNoTests>>

C16_Witness == ThreeImporters /\ ~impactCase.cyclic /\ impactCase.tests = {}

(***************************************************************************)
(* Specification SpecBoost: getBoostCandidates on bounded sessions         *)
(***************************************************************************)

InitBoost ==
    /\ CarryIdle
    /\ SessIdle
    /\ SaveIdle
    /\ MemIdle
    /\ ScoreIdle
    /\ PipeIdle
    /\ ScanIdle
    /\ CacheIdle
    /\ LoadIdle
    /\ RequestIdle
    /\ ImpactIdle
    /\ activeSession \in ActiveSessions
    /\ candidates = NoCandidates

GetBoostCandidates ==
    /\ ~candidates.called
    /\ candidates' = [called |-> TRUE, out |-> getBoostCandidates(activeSession, Now)]
    /\ UNCHANGED <<scoreVars, pipeVars, scanVars, cacheVars, loadVars, reqVars,
                   impactVars, activeSession, sessVars, saveVars, memVars, carryVars>>

NextBoost == GetBoostCandidates

SpecBoost == InitBoost /\ [][NextBoost]_vars

InitSession ==
    /\ CarryIdle
    /\ ScoreIdle
    /\ PipeIdle
    /\ ScanIdle
    /\ CacheIdle
    /\ LoadIdle
    /\ RequestIdle
    /\ ImpactIdle
    /\ BoostIdle
    /\ SaveIdle
    /\ MemIdle
    /\ sessionFile \in {AbsentFile, [content |-> "complete", doc |-> NewSession]}
    /\ cmd = [p \in Commands |-> IdleCmd]

\* A process is given its command: a fresh SessionManager, whose
\* activeSession is null.  One session is followed, so session start runs
\* while its file does not exist yet.
Invoke(p) ==
    /\ cmd[p].kind = "idle"
    /\ \E kind \in {"start", "end", "search"}, arg \in SessionArgs :
          /\ kind = "start" =>
                /\ arg = "none"
                /\ sessionFile.content = "absent"
                /\ \A q \in Commands : cmd[q].kind # "start"
          /\ kind = "search" => arg # "none"
          /\ cmd' = [cmd EXCEPT ![p] =
                [IdleCmd EXCEPT
                    !.kind = kind,
                    !.arg = arg,
                    !.pc = CASE kind = "start" -> "start"
                             [] kind = "end" /\ arg = "none" -> "endSession"
                             [] OTHER -> "access",
                    !.next = IF kind = "end" THEN "endSession" ELSE "recordQuery",
                    !.existed = sessionFile.content = "complete"
                                /\ sessionFile.doc.status = "active"]]
    /\ UNCHANGED <<scoreVars, pipeVars, scanVars, cacheVars, loadVars, reqVars, impactVars, boostVars, saveVars, memVars, sessionFile, carryVars>>

\* startSession up to its save.
StartSession(p) ==
    /\ cmd[p].pc = "start"
    /\ cmd' = [cmd EXCEPT ![p] =
                 [@ EXCEPT !.active = NewSession, !.pc = "open", !.next = "report"]]
    /\ UNCHANGED <<scoreVars, pipeVars, scanVars, cacheVars, loadVars, reqVars, impactVars, boostVars, saveVars, memVars, sessionFile, carryVars>>

\* What a command does when loadSession returned null: session end prints
\* that the session was not found and exits with status 1, a search skips
\* the recording.
LoadFailed(c) ==
    IF c.kind = "end"
    THEN [c EXCEPT !.pc = "done", !.out = "Session not found"]
    ELSE [c EXCEPT !.pc = "report"]

\* loadSession: the path is decided.
SessionLoadAccess(p) ==
    /\ cmd[p].pc = "access"
    /\ cmd' = [cmd EXCEPT ![p] =
                 IF ResolvesPath(cmd[p].arg)
                 THEN [@ EXCEPT !.pc = "read"]
                 ELSE LoadFailed(@)]
    /\ UNCHANGED <<scoreVars, pipeVars, scanVars, cacheVars, loadVars, reqVars, impactVars, boostVars, saveVars, memVars, sessionFile, carryVars>>

\* loadSession: the file is read and parsed.
SessionLoadRead(p) ==
    /\ cmd[p].pc = "read"
    /\ cmd' = [cmd EXCEPT ![p] =
                 IF ReadSession = NoSession
                 THEN LoadFailed(@)
                 ELSE [@ EXCEPT !.active = ReadSession, !.pc = cmd[p].next]]
    /\ UNCHANGED <<scoreVars, pipeVars, scanVars, cacheVars, loadVars, reqVars, impactVars, boostVars, saveVars, memVars, sessionFile, carryVars>>

\* recordQuery up to its save.
SessionRecordQuery(p) ==
    /\ cmd[p].pc = "recordQuery"
    /\ cmd' = [cmd EXCEPT ![p] =
                 [@ EXCEPT !.active = recordQuery(@), !.pc = "open",
                           !.next = "recordViews"]]
    /\ UNCHANGED <<scoreVars, pipeVars, scanVars, cacheVars, loadVars, reqVars, impactVars, boostVars, saveVars, memVars, sessionFile, carryVars>>

\* recordFileViews up to its save.
SessionRecordFileViews(p) ==
    /\ cmd[p].pc = "recordViews"
    /\ cmd' = [cmd EXCEPT ![p] =
                 [@ EXCEPT !.active = recordFileViews(@, RecordedPaths),
                           !.pc = "open", !.next = "report"]]
    /\ UNCHANGED <<scoreVars, pipeVars, scanVars, cacheVars, loadVars, reqVars, impactVars, boostVars, saveVars, memVars, sessionFile, carryVars>>

\* endSession: returns at once without an active session, otherwise marks
\* it ended and saves it.
EndSession(p) ==
    /\ cmd[p].pc = "endSession"
    /\ cmd' = [cmd EXCEPT ![p] =
                 IF cmd[p].active = NoSession
                 THEN [@ EXCEPT !.pc = "report"]
                 ELSE [@ EXCEPT !.active = MarkEnded(@), !.pc = "open",
                                !.next = "report"]]
    /\ UNCHANGED <<scoreVars, pipeVars, scanVars, cacheVars, loadVars, reqVars, impactVars, boostVars, saveVars, memVars, sessionFile, carryVars>>

\* saveSession, fs.writeFile: the file is opened for writing, which creates
\* or truncates it.
WriteOpen(p) ==
    /\ cmd[p].pc = "open"
    /\ sessionFile' = [sessionFile EXCEPT !.content = "partial"]
    /\ cmd' = [cmd EXCEPT ![p] = [@ EXCEPT !.pc = "write"]]
    /\ UNCHANGED <<scoreVars, pipeVars, scanVars, cacheVars, loadVars, reqVars, impactVars, boostVars, saveVars, memVars, carryVars>>

\* saveSession, fs.writeFile: the serialized session is written.
WriteFile(p) ==
    /\ cmd[p].pc = "write"
    /\ sessionFile' = [content |-> "complete", doc |-> cmd[p].active]
    /\ cmd' = [cmd EXCEPT ![p] = [@ EXCEPT !.pc = cmd[p].next]]
    /\ UNCHANGED <<scoreVars, pipeVars, scanVars, cacheVars, loadVars, reqVars, impactVars, boostVars, saveVars, memVars, carryVars>>

\* The command prints its outcome and the process exits.
Report(p) ==
    /\ cmd[p].pc = "report"
    /\ cmd' = [cmd EXCEPT ![p] = [@ EXCEPT !.pc = "done", !.out = ReportOf(cmd[p].kind)]]
    /\ UNCHANGED <<scoreVars, pipeVars, scanVars, cacheVars, loadVars, reqVars, impactVars, boostVars, saveVars, memVars, sessionFile, carryVars>>

NextSession ==
    \E p \in Commands :
        \/ Invoke(p)
        \/ StartSession(p)
        \/ SessionLoadAccess(p)
        \/ SessionLoadRead(p)
        \/ SessionRecordQuery(p)
        \/ SessionRecordFileViews(p)
        \/ EndSession(p)
        \/ WriteOpen(p)
        \/ WriteFile(p)
        \/ Report(p)

SpecSession == InitSession /\ [][NextSession]_vars

\* C21: after session end without a session id has reported success, the
\* persisted document of the session that was active when the command was
\* run has status ended.
C21_EndWithoutIdEndsSession ==
    \A p \in Commands :
        ( /\ cmd[p].kind = "end" /\ cmd[p].arg = "none"
          /\ cmd[p].existed
          /\ cmd[p].out = "Session ended" ) =>
            sessionFile.doc.status = "ended"

\* C23: a loader that reads the file of a session whose document has been
\* written before gets a complete document, whatever a concurrent saver is
\* doing: loading an existing valid session never fails.
C23_LoadSeesCompleteDocument ==
    [][\A p \in Commands :
          ( /\ cmd[p].pc = "read" /\ cmd'[p].pc # "read"
            /\ sessionFile.doc # NoSession ) =>
              cmd'[p].active # NoSession]_vars

\* C30: once the persisted document has status ended, no later operation
\* changes it: every document written afterwards equals it.
C30_EndedDocumentFrozen ==
    [][sessionFile.doc.status = "ended" => sessionFile'.doc = sessionFile.doc]_vars

\* C30, the search alone: a search with --session does not write to a
\* document whose status is ended.
C30_SearchLeavesEndedDocument ==
    [][\A p \in Commands :
          ( /\ cmd[p].kind = "search" /\ cmd[p].pc = "write"
            /\ cmd'[p].pc # "write"
            /\ sessionFile.doc.status = "ended" ) =>
              sessionFile'.doc = sessionFile.doc]_vars

(***************************************************************************)
(* Specification SpecSave: concurrent saves of one project root's index    *)
(***************************************************************************)

InitSave ==
    /\ CarryIdle
    /\ ScoreIdle
    /\ PipeIdle
    /\ ScanIdle
    /\ CacheIdle
    /\ LoadIdle
    /\ RequestIdle
    /\ ImpactIdle
    /\ BoostIdle
    /\ SessIdle
    /\ MemIdle
    /\ \E exists \in BOOLEAN :
          /\ inodes = IF exists THEN <<CompleteIndex(0)>> ELSE <<>>
          /\ dirents = [tmp |-> 0, index |-> IF exists THEN 1 ELSE 0]
    /\ saver = [p \in Savers |-> IdleSaver]

\* save up to writeFile: the memory cache is set, .mantic and its
\* .gitignore are created.
SavePrepare(p) ==
    /\ saver[p].pc = "idle"
    /\ saver' = [saver EXCEPT ![p] = [@ EXCEPT !.pc = "open"]]
    /\ UNCHANGED <<scoreVars, pipeVars, scanVars, cacheVars, loadVars, reqVars, impactVars, boostVars, sessVars, memVars, inodes, dirents, carryVars>>

\* fs.writeFile(tempPath): index.json.tmp is opened for writing, which
\* creates it or truncates the file of that name.
SaveOpen(p) ==
    /\ saver[p].pc = "open"
    /\ IF dirents.tmp = 0
       THEN /\ inodes' = Append(inodes, <<>>)
            /\ dirents' = [dirents EXCEPT !.tmp = Len(inodes) + 1]
       ELSE /\ inodes' = [inodes EXCEPT ![dirents.tmp] = <<>>]
            /\ dirents' = dirents
    /\ saver' = [saver EXCEPT ![p] =
                   [@ EXCEPT !.pc = "write", !.fd = dirents'.tmp, !.offset = 1]]
    /\ UNCHANGED <<scoreVars, pipeVars, scanVars, cacheVars, loadVars, reqVars, impactVars, boostVars, sessVars, memVars, carryVars>>

\* fs.writeFile(tempPath): one write call on the open descriptor, at the
\* descriptor's offset; the descriptor is closed after the last one.
SaveWrite(p) ==
    /\ saver[p].pc = "write"
    /\ inodes' = [inodes EXCEPT ![saver[p].fd] =
                    WriteAt(@, saver[p].offset, Chunk(p, saver[p].offset))]
    /\ saver' = [saver EXCEPT ![p] =
                   [@ EXCEPT !.offset = @ + 1,
                             !.pc = IF saver[p].offset = IndexChunks
                                    THEN "rename" ELSE "write"]]
    /\ UNCHANGED <<scoreVars, pipeVars, scanVars, cacheVars, loadVars, reqVars, impactVars, boostVars, sessVars, memVars, dirents, carryVars>>

\* fs.rename(tempPath, cachePath): index.json names the file that
\* index.json.tmp named; without a file of that name rename fails and save
\* rejects.
SaveRename(p) ==
    /\ saver[p].pc = "rename"
    /\ IF dirents.tmp = 0
       THEN /\ dirents' = dirents
            /\ saver' = [saver EXCEPT ![p] = [@ EXCEPT !.pc = "done", !.error = TRUE]]
       ELSE /\ dirents' = [tmp |-> 0, index |-> dirents.tmp]
            /\ saver' = [saver EXCEPT ![p] = [@ EXCEPT !.pc = "done"]]
    /\ UNCHANGED <<scoreVars, pipeVars, scanVars, cacheVars, loadVars, reqVars, impactVars, boostVars, sessVars, memVars, inodes, carryVars>>

NextSave ==
    \E p \in Savers :
        \/ SavePrepare(p)
        \/ SaveOpen(p)
        \/ SaveWrite(p)
        \/ SaveRename(p)

SpecSave == InitSave /\ [][NextSave]_vars

\* index.json, when it exists, holds one complete index.
IndexComplete ==
    dirents.index # 0 => IsCompleteIndex(inodes[dirents.index])

\* C24: under any interleaving of index saves of one project root,
\* index.json always holds one complete index, the previous one or one of
\* the new ones, and every save completes without error.
C24_IndexSaveAtomic ==
    /\ IndexComplete
    /\ \A p \in Savers : ~saver[p].error

\* C24, the file alone: index.json never holds a partial or mixed index.
C24_IndexNeverPartial == IndexComplete

\* C24, the errors alone: no save rejects.
C24_NoSaveError == \A p \in Savers : ~saver[p].error

(***************************************************************************)
(* Specification SpecMemory: loads and saves of several roots in a process *)
(***************************************************************************)

InitMemory ==
    /\ CarryIdle
    /\ ScoreIdle
    /\ PipeIdle
    /\ ScanIdle
    /\ CacheIdle
    /\ LoadIdle
    /\ RequestIdle
    /\ ImpactIdle
    /\ BoostIdle
    /\ SessIdle
    /\ SaveIdle
    /\ usage = NoUsage

\* What a load of root k that ended in memory `mem` leaves in the history.
UsageAfterLoad(res, got, k) ==
    [order |-> IF res.data.present
               THEN Touch(usage.order, k, MemKeys(res.mem))
               ELSE SelectSeq(usage.order, LAMBDA x : x \in MemKeys(res.mem)),
     written |-> IF res.data.present /\ ~got.data.present
                 THEN Touch(usage.written, k, MemKeys(res.mem))
                 ELSE SelectSeq(usage.written, LAMBDA x : x \in MemKeys(res.mem)),
     op |-> [kind |-> "load", key |-> k, hit |-> got.data.present]]

MemoryLoadWith(res, got, k) ==
    /\ memory' = res.mem
    /\ usage' = UsageAfterLoad(res, got, k)

\* new CacheManager(k).load(), with or without an index of k on disk.
MemoryLoad(k) ==
    /\ \E onDisk \in BOOLEAN :
          MemoryLoadWith(LoadRoot(memory, k, IF onDisk THEN RootIndex(k) ELSE NullIndex),
                         MemGet(memory, k), k)
    /\ UNCHANGED <<scoreVars, pipeVars, scanVars, loadVars, reqVars, impactVars, boostVars, sessVars, saveVars, carryVars, worktree, disk, run>>

\* new CacheManager(k).save(cache): the memory cache is set first.
MemorySave(k) ==
    /\ memory' = MemSet(memory, k, RootIndex(k))
    /\ usage' = [order |-> Touch(usage.order, k, MemKeys(memory')),
                 written |-> Touch(usage.written, k, MemKeys(memory')),
                 op |-> [kind |-> "save", key |-> k, hit |-> FALSE]]
    /\ UNCHANGED <<scoreVars, pipeVars, scanVars, loadVars, reqVars, impactVars, boostVars, sessVars, saveVars, carryVars, worktree, disk, run>>

\* Time passes: the entry written the longest ago becomes older than five
\* minutes.
MemoryAge ==
    /\ usage.written # <<>>
    /\ memory' = [i \in 1..Len(memory) |->
                    IF memory[i].key = Head(usage.written)
                    THEN [memory[i] EXCEPT !.fresh = FALSE]
                    ELSE memory[i]]
    /\ usage' = [usage EXCEPT !.written = Tail(@),
                              !.op = [kind |-> "age", key |-> Head(usage.written),
                                      hit |-> FALSE]]
    /\ UNCHANGED <<scoreVars, pipeVars, scanVars, loadVars, reqVars, impactVars, boostVars, sessVars, saveVars, carryVars, worktree, disk, run>>

NextMemory ==
    \/ \E k \in CacheRoots : MemoryLoad(k)
    \/ \E k \in CacheRoots : MemorySave(k)
    \/ MemoryAge

SpecMemory == InitMemory /\ [][NextMemory]_vars

\* The roots a step removes from the cache other than the root the
\* operation is about.
Evicted == (MemKeys(memory) \ MemKeys(memory')) \ {usage'.op.key}

\* The cache never holds more than three roots.
AtMostThreeRoots == Len(memory') <= maxSize

\* A root is evicted only when a root not yet cached is inserted while
\* three are held.
EvictsOnlyForNewRoot ==
    Evicted # {} => (usage'.op.key \notin MemKeys(memory) /\ Len(memory) = maxSize)

\* The evicted root is the least recently read or written one.
EvictsLeastRecentlyUsed ==
    \A k \in Evicted : k = LeastRecentlyUsed(memory, usage.order)

\* A load answered from memory returns an entry not older than five minutes.
NeverReturnsExpired ==
    (usage'.op.kind = "load" /\ usage'.op.hit) =>
        memory[MemIndexOf(memory, usage'.op.key)].fresh

\* C29: after any sequence of loads and saves the memory cache holds at most
\* three roots; an entry is evicted only when a root not yet cached is
\* inserted while three are held, and the evicted root is then the least
\* recently read or written one; an entry older than five minutes is never
\* returned.
C29_MemoryCacheLRU ==
    [][/\ AtMostThreeRoots
       /\ EvictsOnlyForNewRoot
       /\ EvictsLeastRecentlyUsed
       /\ NeverReturnsExpired]_vars

\* C29, the size and the expiry: at most three roots are held and no entry
\* older than five minutes is returned.
C29_SizeAndExpiry ==
    [][AtMostThreeRoots /\ NeverReturnsExpired]_vars

\* C29, when roots are evicted.
C29_EvictsOnlyForNewRoot == [][EvictsOnlyForNewRoot]_vars

\* C29, which root is evicted.
C29_EvictsLeastRecentlyUsed == [][EvictsLeastRecentlyUsed]_vars

(***************************************************************************)
(* Claims about the smart filter's constraints and primary keyword         *)
(***************************************************************************)

\* The constraints were applied in descending order of
\* selectivity / (cost + 0.1).
DescendingRatio(cs) ==
    \A i \in 1..(Len(cs) - 1) : ~BetterRatio(cs[i + 1], cs[i])

\* C27: the smart filter applies its constraints in descending order of
\* selectivity / (cost + 0.1), and for every non-empty keyword list the
\* usage constraint is the first one applied.
C27_UsageConstraintFirst ==
    smart.called =>
        /\ DescendingRatio(smart.applied)
        /\ Len(keywords) > 0 => smart.applied[1].type = "usage"

\* C27, the order alone: the constraints are applied in descending order of
\* selectivity / (cost + 0.1).
C27_DescendingRatio ==
    smart.called => DescendingRatio(smart.applied)

\* C28: the primary keyword of exact line detection is the first keyword,
\* in the order the query's keywords were extracted, that is neither a
\* generic UI term nor shaped like a filename; and SmartFilter.search leaves
\* the order of the caller's keyword list unchanged.
C28_PrimaryKeywordInQueryOrder ==
    [][(~smart.called /\ smart'.called) =>
          /\ FirstKeyword(keywords, IsContentKeyword) # <<>> =>
                smart'.primary = FirstKeyword(keywords, IsContentKeyword)
          /\ keywords' = keywords]_vars

\* C28, the primary keyword alone.
C28_PrimaryKeyword ==
    [][(~smart.called /\ smart'.called) =>
          (FirstKeyword(keywords, IsContentKeyword) # <<>> =>
              smart'.primary = FirstKeyword(keywords, IsContentKeyword))]_vars

(***************************************************************************)
(* Specification SpecCarry: the intent-based filtering of a cached scan,   *)
(* for an intent whose confidence is sufficient                            *)
(***************************************************************************)

InitCarry ==
    /\ PipeIdle
    /\ ScanIdle
    /\ CacheIdle
    /\ LoadIdle
    /\ RequestIdle
    /\ ImpactIdle
    /\ BoostIdle
    /\ SessIdle
    /\ SaveIdle
    /\ MemIdle
    /\ files \in CarryFiles
    /\ keywords \in KeywordLists \ {<<>>}
    /\ category = "auth"
    /\ boosts = NoBoosts
    /\ index \in IndexUniverse
    /\ excerpts \in {{}, {PathLoginTest}}
    /\ recentFiles = {}
    /\ contextFiles = {}
    /\ ranked = NotCalled
    /\ smart = NotCalled
    /\ lastRequest \in LastRequests
    /\ carried = NotCarried

\* loadSessionContext, the overlap check, smartFilter.search with the
\* context files, and the filter of the scored files.
ScanWithCarryover ==
    /\ ~carried.called
    /\ carried' = CarriedWith(Carryover(lastRequest, keywords),
                              SmartSearch(files, keywords, index, recentFiles,
                                          Range(Carryover(lastRequest, keywords).contextFiles),
                                          excerpts))
    /\ keywords' = SortKeywords(keywords)
    /\ UNCHANGED <<files, category, boosts, index, excerpts,
                   recentFiles, contextFiles, ranked, smart>>
    /\ UNCHANGED <<pipeVars, scanVars, cacheVars, loadVars, reqVars, impactVars, boostVars, sessVars, saveVars, memVars, lastRequest>>

NextCarry == ScanWithCarryover

SpecCarry == InitCarry /\ [][NextCarry]_vars

\* The score the constraints alone give a path.
ConstraintScore(p) ==
    LET scored == applyConstraints(files, sequenceConstraints(generateConstraints(keywords)),
                                   index)
    IN  scored[CHOOSE i \in 1..Len(scored) : scored[i].path = p].score

\* Every prior top file among the scored files has the carryover boost and
\* its tag.
PriorFilesBoosted ==
    \A i \in 1..Len(carried.scoredFiles) :
        carried.scoredFiles[i].path \in Range(lastRequest.topFiles) =>
            /\ "context-carryover" \in Range(carried.scoredFiles[i].tags)
            /\ carried.scoredFiles[i].score
                  = ConstraintScore(carried.scoredFiles[i].path) + 150 * ScoreScale

\* The result lists a file that is not a prior top file.
OthersRemain ==
    \A i \in 1..Len(carried.scoredFiles) :
        carried.scoredFiles[i].score > 0 =>
            carried.scoredFiles[i].path \in Range(carried.files)

\* C26: when a previous request is recorded and the keyword overlap is not
\* above 70%, every prior top file among the candidates gets +150 and the
\* tag context-carryover while the other candidates remain in the result;
\* the result is restricted to the prior files only when the overlap is
\* above 70% and the overlap confidence above 0.75.
C26_CarryoverBoost ==
    (carried.called /\ lastRequest.exists) =>
        /\ ~HighOverlap(lastRequest, keywords) => (PriorFilesBoosted /\ OthersRemain)
        /\ ~OthersRemain =>
              /\ HighOverlap(lastRequest, keywords)
              /\ 4 * carried.confidence > 3 * ConfidenceScale

\* C26, the restriction alone: the result is restricted to the prior files
\* only when the overlap is above 70% and its confidence above 0.75, and
\* the other candidates remain otherwise.
C26_RestrictedOnlyOnHighOverlap ==
    (carried.called /\ lastRequest.exists) =>
        /\ ~HighOverlap(lastRequest, keywords) => OthersRemain
        /\ ~OthersRemain =>
              /\ HighOverlap(lastRequest, keywords)
              /\ 4 * carried.confidence > 3 * ConfidenceScale

\* C26, the boost on a follow-up: with an overlap above 70% every prior top
\* file among the scored files has the boost and the tag.
C26_BoostedOnHighOverlap ==
    (carried.called /\ lastRequest.exists /\ HighOverlap(lastRequest, keywords)) =>
        PriorFilesBoosted

====
